---------------------------- MODULE Spec2Model ----------------------------
(***************************************************************************)
(* The PDB browser bulk loaders (jlgelpi/DBW_PDBBrowser_ETL) as one state  *)
(* machine.  The script that runs is selected by the variable variant:     *)
(*   "sql"     src/loadDB.py                                               *)
(*   "plain"   src/mongodb/loadDB_mdb_plain.py                             *)
(*   "orm"     src/mysql/loadDB_orm.py                                     *)
(*   "mdb"     src/mongodb/loadDB_mdb.py                                   *)
(*   "mengine" src/mongodb/loadDB_mdb_mongoengine.py                       *)
(* Only the first two reach their sections: loadDB_orm.py uses a name it   *)
(* never binds before its first section, and the import of                 *)
(* src/mongodb/models/pdb_models.py, which loadDB_mdb.py and               *)
(* loadDB_mdb_mongoengine.py start with, raises NameError.                 *)
(*                                                                         *)
(* Text is a sequence of characters, so that the parsing the loaders do    *)
(* (rstrip, split, upper, the header pattern, float) is computed and not   *)
(* assumed.  A character is the string of that one character or, when a    *)
(* string of this language cannot hold it, its name: "U+" and the code     *)
(* point in four to six hexadecimal digits, as "U+0178" or "U+2003".       *)
(* These are the code points from U+0100 on whose low byte is below 80     *)
(* (hexadecimal) and the code points from U+10000 on.  The persistence backend is outside of the    *)
(* repository: it is a store with exact-match keys that keeps the primary  *)
(* keys the models declare and accepts every other write.                  *)
(***************************************************************************)
EXTENDS Naturals, Integers, Sequences, FiniteSets, TLC

(***************************************************************************)
(* Text: the str methods the loaders call.                                 *)
(***************************************************************************)
\* the blanks of str.isspace() other than the information separators: tab,
\* line feed, vertical tab, form feed, carriage return, space, NEL, the
\* no-break space, the ogham space mark, the spaces U+2000 to U+200A, the
\* line and the paragraph separator, and the spaces U+202F, U+205F, U+3000
Blanks ==
    { "\t", "\n", "", "\f", "\r", " ", "", " ", " ", "U+2000", "U+2001",
      "U+2002", "U+2003", "U+2004", "U+2005", "U+2006", "U+2007", "U+2008",
      "U+2009", "U+200A", "U+2028", "U+2029", "U+202F", "U+205F", "U+3000" }

\* the information separators U+001C to U+001F
Separators == { "", "", "", "" }

\* str.isspace() of one character
IsSpace(c) == c \in Blanks \cup Separators

\* the blanks float() drops around a number: it does not take the
\* information separators for blanks
IsFloatSpace(c) == c \in Blanks

\* the slice s[i-1 : j] of Python: characters i..j of s, cut to what s holds
Slice(s, i, j) ==
    LET lo == IF i < 1 THEN 1 ELSE i
        hi == IF j > Len(s) THEN Len(s) ELSE j
    IN  IF hi < lo THEN << >> ELSE [k \in 1..(hi - lo + 1) |-> s[lo + k - 1]]

RECURSIVE RStrip(_)
RStrip(s) ==
    IF s = << >> THEN << >>
    ELSE IF IsSpace(s[Len(s)]) THEN RStrip(Slice(s, 1, Len(s) - 1))
    ELSE s

RECURSIVE LStrip(_)
LStrip(s) ==
    IF s = << >> THEN << >>
    ELSE IF IsSpace(s[1]) THEN LStrip(Tail(s))
    ELSE s

RECURSIVE FloatStrip(_)
FloatStrip(s) ==
    IF s = << >> THEN << >>
    ELSE IF IsFloatSpace(s[1]) THEN FloatStrip(Tail(s))
    ELSE IF IsFloatSpace(s[Len(s)]) THEN FloatStrip(Slice(s, 1, Len(s) - 1))
    ELSE s

StartsWith(s, p) == Len(s) >= Len(p) /\ Slice(s, 1, Len(p)) = p

\* str.find, 1-based; 0 when p does not occur in s
Find(s, p) ==
    LET hits == {i \in 1..(Len(s) + 1) : StartsWith(Slice(s, i, Len(s)), p)}
    IN  IF hits = {} THEN 0 ELSE CHOOSE i \in hits : \A j \in hits : i <= j

Contains(s, p) == Find(s, p) # 0

\* s.split(sep) in the place of s.split(sep, 1): every occurrence splits
RECURSIVE SplitAll(_, _)
SplitAll(s, sep) ==
    LET i == Find(s, sep)
    IN  IF i = 0 THEN <<s>>
        ELSE <<Slice(s, 1, i - 1)>> \o SplitAll(Slice(s, i + Len(sep), Len(s)), sep)

\* s.split(sep, 1)
SplitOnce(s, sep) ==
    LET i == Find(s, sep)
    IN  IF i = 0 THEN <<s>>
        ELSE <<Slice(s, 1, i - 1), Slice(s, i + Len(sep), Len(s))>>

\* s.split(sep)
RECURSIVE Split(_, _)
Split(s, sep) ==
    LET i == Find(s, sep)
    IN  IF i = 0 THEN <<s>>
        ELSE <<Slice(s, 1, i - 1)>> \o Split(Slice(s, i + Len(sep), Len(s)), sep)

\* the first run of non-blank characters of s (s starts with a non-blank)
RECURSIVE Word(_)
Word(s) ==
    IF s = << >> \/ IsSpace(s[1]) THEN << >> ELSE <<s[1]>> \o Word(Tail(s))

\* s.split()
RECURSIVE SplitWs(_)
SplitWs(s) ==
    LET t == LStrip(s)
    IN  IF t = << >> THEN << >>
        ELSE <<Word(t)>> \o SplitWs(Slice(t, Len(Word(t)) + 1, Len(t)))

\* s.split(maxsplit=1)
SplitWsOnce(s) ==
    LET t == LStrip(s)
        w == Word(t)
        r == LStrip(Slice(t, Len(w) + 1, Len(t)))
    IN  IF t = << >> THEN << >>
        ELSE IF r = << >> THEN <<w>>
        ELSE <<w, r>>

LowerCase ==
    << "a", "b", "c", "d", "e", "f", "g", "h", "i", "j", "k", "l", "m",
       "n", "o", "p", "q", "r", "s", "t", "u", "v", "w", "x", "y", "z" >>

UpperCase ==
    << "A", "B", "C", "D", "E", "F", "G", "H", "I", "J", "K", "L", "M",
       "N", "O", "P", "Q", "R", "S", "T", "U", "V", "W", "X", "Y", "Z" >>

\* the characters that str.upper() changes, and what it changes each of
\* them into
LowerLetters ==
    << "a", "b", "c", "d", "e", "f", "g", "h", "i", "j", "k", "l", "m", "n",
       "o", "p", "q", "r", "s", "t", "u", "v", "w", "x", "y", "z", "µ", "ß",
       "à", "á", "â", "ã", "ä", "å", "æ", "ç", "è", "é", "ê", "ë", "ì", "í",
       "î", "ï", "ð", "ñ", "ò", "ó", "ô", "õ", "ö", "ø", "ù", "ú", "û", "ü",
       "ý", "þ", "ÿ", "U+0101", "U+0103", "U+0105", "U+0107", "U+0109",
       "U+010B", "U+010D", "U+010F", "U+0111", "U+0113", "U+0115", "U+0117",
       "U+0119", "U+011B", "U+011D", "U+011F", "U+0121", "U+0123", "U+0125",
       "U+0127", "U+0129", "U+012B", "U+012D", "U+012F", "U+0131", "U+0133",
       "U+0135", "U+0137", "U+013A", "U+013C", "U+013E", "U+0140", "U+0142",
       "U+0144", "U+0146", "U+0148", "U+0149", "U+014B", "U+014D", "U+014F",
       "U+0151", "U+0153", "U+0155", "U+0157", "U+0159", "U+015B", "U+015D",
       "U+015F", "U+0161", "U+0163", "U+0165", "U+0167", "U+0169", "U+016B",
       "U+016D", "U+016F", "U+0171", "U+0173", "U+0175", "U+0177", "U+017A",
       "U+017C", "U+017E", "U+017F", "ƀ", "ƃ", "ƅ", "ƈ", "ƌ", "ƒ", "ƕ", "ƙ",
       "ƚ", "ƞ", "ơ", "ƣ", "ƥ", "ƨ", "ƭ", "ư", "ƴ", "ƶ", "ƹ", "ƽ", "ƿ", "ǅ",
       "ǆ", "ǈ", "ǉ", "ǋ", "ǌ", "ǎ", "ǐ", "ǒ", "ǔ", "ǖ", "ǘ", "ǚ", "ǜ", "ǝ",
       "ǟ", "ǡ", "ǣ", "ǥ", "ǧ", "ǩ", "ǫ", "ǭ", "ǯ", "ǰ", "ǲ", "ǳ", "ǵ", "ǹ",
       "ǻ", "ǽ", "ǿ", "U+0201", "U+0203", "U+0205", "U+0207", "U+0209",
       "U+020B", "U+020D", "U+020F", "U+0211", "U+0213", "U+0215", "U+0217",
       "U+0219", "U+021B", "U+021D", "U+021F", "U+0223", "U+0225", "U+0227",
       "U+0229", "U+022B", "U+022D", "U+022F", "U+0231", "U+0233", "U+023C",
       "U+023F", "U+0240", "U+0242", "U+0247", "U+0249", "U+024B", "U+024D",
       "U+024F", "U+0250", "U+0251", "U+0252", "U+0253", "U+0254", "U+0256",
       "U+0257", "U+0259", "U+025B", "U+025C", "U+0260", "U+0261", "U+0263",
       "U+0265", "U+0266", "U+0268", "U+0269", "U+026A", "U+026B", "U+026C",
       "U+026F", "U+0271", "U+0272", "U+0275", "U+027D", "ʀ", "ʂ", "ʃ", "ʇ",
       "ʈ", "ʉ", "ʊ", "ʋ", "ʌ", "ʒ", "ʝ", "ʞ", "U+0345", "U+0371", "U+0373",
       "U+0377", "U+037B", "U+037C", "U+037D", "ΐ", "ά", "έ", "ή", "ί", "ΰ",
       "α", "β", "γ", "δ", "ε", "ζ", "η", "θ", "ι", "κ", "λ", "μ", "ν", "ξ",
       "ο", "π", "ρ", "ς", "σ", "τ", "υ", "φ", "χ", "ψ", "ω", "ϊ", "ϋ", "ό",
       "ύ", "ώ", "ϐ", "ϑ", "ϕ", "ϖ", "ϗ", "ϙ", "ϛ", "ϝ", "ϟ", "ϡ", "ϣ", "ϥ",
       "ϧ", "ϩ", "ϫ", "ϭ", "ϯ", "ϰ", "ϱ", "ϲ", "ϳ", "ϵ", "ϸ", "ϻ", "U+0430",
       "U+0431", "U+0432", "U+0433", "U+0434", "U+0435", "U+0436", "U+0437",
       "U+0438", "U+0439", "U+043A", "U+043B", "U+043C", "U+043D", "U+043E",
       "U+043F", "U+0440", "U+0441", "U+0442", "U+0443", "U+0444", "U+0445",
       "U+0446", "U+0447", "U+0448", "U+0449", "U+044A", "U+044B", "U+044C",
       "U+044D", "U+044E", "U+044F", "U+0450", "U+0451", "U+0452", "U+0453",
       "U+0454", "U+0455", "U+0456", "U+0457", "U+0458", "U+0459", "U+045A",
       "U+045B", "U+045C", "U+045D", "U+045E", "U+045F", "U+0461", "U+0463",
       "U+0465", "U+0467", "U+0469", "U+046B", "U+046D", "U+046F", "U+0471",
       "U+0473", "U+0475", "U+0477", "U+0479", "U+047B", "U+047D", "U+047F",
       "ҁ", "ҋ", "ҍ", "ҏ", "ґ", "ғ", "ҕ", "җ", "ҙ", "қ", "ҝ", "ҟ", "ҡ", "ң",
       "ҥ", "ҧ", "ҩ", "ҫ", "ҭ", "ү", "ұ", "ҳ", "ҵ", "ҷ", "ҹ", "һ", "ҽ", "ҿ",
       "ӂ", "ӄ", "ӆ", "ӈ", "ӊ", "ӌ", "ӎ", "ӏ", "ӑ", "ӓ", "ӕ", "ӗ", "ә", "ӛ",
       "ӝ", "ӟ", "ӡ", "ӣ", "ӥ", "ӧ", "ө", "ӫ", "ӭ", "ӯ", "ӱ", "ӳ", "ӵ", "ӷ",
       "ӹ", "ӻ", "ӽ", "ӿ", "U+0501", "U+0503", "U+0505", "U+0507", "U+0509",
       "U+050B", "U+050D", "U+050F", "U+0511", "U+0513", "U+0515", "U+0517",
       "U+0519", "U+051B", "U+051D", "U+051F", "U+0521", "U+0523", "U+0525",
       "U+0527", "U+0529", "U+052B", "U+052D", "U+052F", "U+0561", "U+0562",
       "U+0563", "U+0564", "U+0565", "U+0566", "U+0567", "U+0568", "U+0569",
       "U+056A", "U+056B", "U+056C", "U+056D", "U+056E", "U+056F", "U+0570",
       "U+0571", "U+0572", "U+0573", "U+0574", "U+0575", "U+0576", "U+0577",
       "U+0578", "U+0579", "U+057A", "U+057B", "U+057C", "U+057D", "U+057E",
       "U+057F", "ր", "ց", "ւ", "փ", "ք", "օ", "ֆ", "և", "ა", "ბ", "გ", "დ",
       "ე", "ვ", "ზ", "თ", "ი", "კ", "ლ", "მ", "ნ", "ო", "პ", "ჟ", "რ", "ს",
       "ტ", "უ", "ფ", "ქ", "ღ", "ყ", "შ", "ჩ", "ც", "ძ", "წ", "ჭ", "ხ", "ჯ",
       "ჰ", "ჱ", "ჲ", "ჳ", "ჴ", "ჵ", "ჶ", "ჷ", "ჸ", "ჹ", "ჺ", "ჽ", "ჾ", "ჿ",
       "ᏸ", "ᏹ", "ᏺ", "ᏻ", "ᏼ", "ᏽ", "ᲀ", "ᲁ", "ᲂ", "ᲃ", "ᲄ", "ᲅ", "ᲆ", "ᲇ",
       "ᲈ", "U+1D79", "U+1D7D", "ᶎ", "U+1E01", "U+1E03", "U+1E05", "U+1E07",
       "U+1E09", "U+1E0B", "U+1E0D", "U+1E0F", "U+1E11", "U+1E13", "U+1E15",
       "U+1E17", "U+1E19", "U+1E1B", "U+1E1D", "U+1E1F", "U+1E21", "U+1E23",
       "U+1E25", "U+1E27", "U+1E29", "U+1E2B", "U+1E2D", "U+1E2F", "U+1E31",
       "U+1E33", "U+1E35", "U+1E37", "U+1E39", "U+1E3B", "U+1E3D", "U+1E3F",
       "U+1E41", "U+1E43", "U+1E45", "U+1E47", "U+1E49", "U+1E4B", "U+1E4D",
       "U+1E4F", "U+1E51", "U+1E53", "U+1E55", "U+1E57", "U+1E59", "U+1E5B",
       "U+1E5D", "U+1E5F", "U+1E61", "U+1E63", "U+1E65", "U+1E67", "U+1E69",
       "U+1E6B", "U+1E6D", "U+1E6F", "U+1E71", "U+1E73", "U+1E75", "U+1E77",
       "U+1E79", "U+1E7B", "U+1E7D", "U+1E7F", "ẁ", "ẃ", "ẅ", "ẇ", "ẉ", "ẋ",
       "ẍ", "ẏ", "ẑ", "ẓ", "ẕ", "ẖ", "ẗ", "ẘ", "ẙ", "ẚ", "ẛ", "ạ", "ả", "ấ",
       "ầ", "ẩ", "ẫ", "ậ", "ắ", "ằ", "ẳ", "ẵ", "ặ", "ẹ", "ẻ", "ẽ", "ế", "ề",
       "ể", "ễ", "ệ", "ỉ", "ị", "ọ", "ỏ", "ố", "ồ", "ổ", "ỗ", "ộ", "ớ", "ờ",
       "ở", "ỡ", "ợ", "ụ", "ủ", "ứ", "ừ", "ử", "ữ", "ự", "ỳ", "ỵ", "ỷ", "ỹ",
       "ỻ", "ỽ", "ỿ", "U+1F00", "U+1F01", "U+1F02", "U+1F03", "U+1F04",
       "U+1F05", "U+1F06", "U+1F07", "U+1F10", "U+1F11", "U+1F12", "U+1F13",
       "U+1F14", "U+1F15", "U+1F20", "U+1F21", "U+1F22", "U+1F23", "U+1F24",
       "U+1F25", "U+1F26", "U+1F27", "U+1F30", "U+1F31", "U+1F32", "U+1F33",
       "U+1F34", "U+1F35", "U+1F36", "U+1F37", "U+1F40", "U+1F41", "U+1F42",
       "U+1F43", "U+1F44", "U+1F45", "U+1F50", "U+1F51", "U+1F52", "U+1F53",
       "U+1F54", "U+1F55", "U+1F56", "U+1F57", "U+1F60", "U+1F61", "U+1F62",
       "U+1F63", "U+1F64", "U+1F65", "U+1F66", "U+1F67", "U+1F70", "U+1F71",
       "U+1F72", "U+1F73", "U+1F74", "U+1F75", "U+1F76", "U+1F77", "U+1F78",
       "U+1F79", "U+1F7A", "U+1F7B", "U+1F7C", "U+1F7D", "ᾀ", "ᾁ", "ᾂ", "ᾃ",
       "ᾄ", "ᾅ", "ᾆ", "ᾇ", "ᾈ", "ᾉ", "ᾊ", "ᾋ", "ᾌ", "ᾍ", "ᾎ", "ᾏ", "ᾐ", "ᾑ",
       "ᾒ", "ᾓ", "ᾔ", "ᾕ", "ᾖ", "ᾗ", "ᾘ", "ᾙ", "ᾚ", "ᾛ", "ᾜ", "ᾝ", "ᾞ", "ᾟ",
       "ᾠ", "ᾡ", "ᾢ", "ᾣ", "ᾤ", "ᾥ", "ᾦ", "ᾧ", "ᾨ", "ᾩ", "ᾪ", "ᾫ", "ᾬ", "ᾭ",
       "ᾮ", "ᾯ", "ᾰ", "ᾱ", "ᾲ", "ᾳ", "ᾴ", "ᾶ", "ᾷ", "ᾼ", "ι", "ῂ", "ῃ", "ῄ",
       "ῆ", "ῇ", "ῌ", "ῐ", "ῑ", "ῒ", "ΐ", "ῖ", "ῗ", "ῠ", "ῡ", "ῢ", "ΰ", "ῤ",
       "ῥ", "ῦ", "ῧ", "ῲ", "ῳ", "ῴ", "ῶ", "ῷ", "ῼ", "U+214E", "U+2170",
       "U+2171", "U+2172", "U+2173", "U+2174", "U+2175", "U+2176", "U+2177",
       "U+2178", "U+2179", "U+217A", "U+217B", "U+217C", "U+217D", "U+217E",
       "U+217F", "ↄ", "ⓐ", "ⓑ", "ⓒ", "ⓓ", "ⓔ", "ⓕ", "ⓖ", "ⓗ", "ⓘ", "ⓙ", "ⓚ",
       "ⓛ", "ⓜ", "ⓝ", "ⓞ", "ⓟ", "ⓠ", "ⓡ", "ⓢ", "ⓣ", "ⓤ", "ⓥ", "ⓦ", "ⓧ", "ⓨ",
       "ⓩ", "U+2C30", "U+2C31", "U+2C32", "U+2C33", "U+2C34", "U+2C35",
       "U+2C36", "U+2C37", "U+2C38", "U+2C39", "U+2C3A", "U+2C3B", "U+2C3C",
       "U+2C3D", "U+2C3E", "U+2C3F", "U+2C40", "U+2C41", "U+2C42", "U+2C43",
       "U+2C44", "U+2C45", "U+2C46", "U+2C47", "U+2C48", "U+2C49", "U+2C4A",
       "U+2C4B", "U+2C4C", "U+2C4D", "U+2C4E", "U+2C4F", "U+2C50", "U+2C51",
       "U+2C52", "U+2C53", "U+2C54", "U+2C55", "U+2C56", "U+2C57", "U+2C58",
       "U+2C59", "U+2C5A", "U+2C5B", "U+2C5C", "U+2C5D", "U+2C5E", "U+2C5F",
       "U+2C61", "U+2C65", "U+2C66", "U+2C68", "U+2C6A", "U+2C6C", "U+2C73",
       "U+2C76", "ⲁ", "ⲃ", "ⲅ", "ⲇ", "ⲉ", "ⲋ", "ⲍ", "ⲏ", "ⲑ", "ⲓ", "ⲕ", "ⲗ",
       "ⲙ", "ⲛ", "ⲝ", "ⲟ", "ⲡ", "ⲣ", "ⲥ", "ⲧ", "ⲩ", "ⲫ", "ⲭ", "ⲯ", "ⲱ", "ⲳ",
       "ⲵ", "ⲷ", "ⲹ", "ⲻ", "ⲽ", "ⲿ", "ⳁ", "ⳃ", "ⳅ", "ⳇ", "ⳉ", "ⳋ", "ⳍ", "ⳏ",
       "ⳑ", "ⳓ", "ⳕ", "ⳗ", "ⳙ", "ⳛ", "ⳝ", "ⳟ", "ⳡ", "ⳣ", "ⳬ", "ⳮ", "ⳳ",
       "U+2D00", "U+2D01", "U+2D02", "U+2D03", "U+2D04", "U+2D05", "U+2D06",
       "U+2D07", "U+2D08", "U+2D09", "U+2D0A", "U+2D0B", "U+2D0C", "U+2D0D",
       "U+2D0E", "U+2D0F", "U+2D10", "U+2D11", "U+2D12", "U+2D13", "U+2D14",
       "U+2D15", "U+2D16", "U+2D17", "U+2D18", "U+2D19", "U+2D1A", "U+2D1B",
       "U+2D1C", "U+2D1D", "U+2D1E", "U+2D1F", "U+2D20", "U+2D21", "U+2D22",
       "U+2D23", "U+2D24", "U+2D25", "U+2D27", "U+2D2D", "U+A641", "U+A643",
       "U+A645", "U+A647", "U+A649", "U+A64B", "U+A64D", "U+A64F", "U+A651",
       "U+A653", "U+A655", "U+A657", "U+A659", "U+A65B", "U+A65D", "U+A65F",
       "U+A661", "U+A663", "U+A665", "U+A667", "U+A669", "U+A66B", "U+A66D",
       "ꚁ", "ꚃ", "ꚅ", "ꚇ", "ꚉ", "ꚋ", "ꚍ", "ꚏ", "ꚑ", "ꚓ", "ꚕ", "ꚗ", "ꚙ", "ꚛ",
       "U+A723", "U+A725", "U+A727", "U+A729", "U+A72B", "U+A72D", "U+A72F",
       "U+A733", "U+A735", "U+A737", "U+A739", "U+A73B", "U+A73D", "U+A73F",
       "U+A741", "U+A743", "U+A745", "U+A747", "U+A749", "U+A74B", "U+A74D",
       "U+A74F", "U+A751", "U+A753", "U+A755", "U+A757", "U+A759", "U+A75B",
       "U+A75D", "U+A75F", "U+A761", "U+A763", "U+A765", "U+A767", "U+A769",
       "U+A76B", "U+A76D", "U+A76F", "U+A77A", "U+A77C", "U+A77F", "ꞁ", "ꞃ",
       "ꞅ", "ꞇ", "ꞌ", "ꞑ", "ꞓ", "ꞔ", "ꞗ", "ꞙ", "ꞛ", "ꞝ", "ꞟ", "ꞡ", "ꞣ", "ꞥ",
       "ꞧ", "ꞩ", "ꞵ", "ꞷ", "ꞹ", "ꞻ", "ꞽ", "ꞿ", "ꟁ", "ꟃ", "ꟈ", "ꟊ", "ꟑ", "ꟗ",
       "ꟙ", "ꟶ", "U+AB53", "U+AB70", "U+AB71", "U+AB72", "U+AB73", "U+AB74",
       "U+AB75", "U+AB76", "U+AB77", "U+AB78", "U+AB79", "U+AB7A", "U+AB7B",
       "U+AB7C", "U+AB7D", "U+AB7E", "U+AB7F", "ꮀ", "ꮁ", "ꮂ", "ꮃ", "ꮄ", "ꮅ",
       "ꮆ", "ꮇ", "ꮈ", "ꮉ", "ꮊ", "ꮋ", "ꮌ", "ꮍ", "ꮎ", "ꮏ", "ꮐ", "ꮑ", "ꮒ", "ꮓ",
       "ꮔ", "ꮕ", "ꮖ", "ꮗ", "ꮘ", "ꮙ", "ꮚ", "ꮛ", "ꮜ", "ꮝ", "ꮞ", "ꮟ", "ꮠ", "ꮡ",
       "ꮢ", "ꮣ", "ꮤ", "ꮥ", "ꮦ", "ꮧ", "ꮨ", "ꮩ", "ꮪ", "ꮫ", "ꮬ", "ꮭ", "ꮮ", "ꮯ",
       "ꮰ", "ꮱ", "ꮲ", "ꮳ", "ꮴ", "ꮵ", "ꮶ", "ꮷ", "ꮸ", "ꮹ", "ꮺ", "ꮻ", "ꮼ", "ꮽ",
       "ꮾ", "ꮿ", "U+FB00", "U+FB01", "U+FB02", "U+FB03", "U+FB04", "U+FB05",
       "U+FB06", "U+FB13", "U+FB14", "U+FB15", "U+FB16", "U+FB17", "U+FF41",
       "U+FF42", "U+FF43", "U+FF44", "U+FF45", "U+FF46", "U+FF47", "U+FF48",
       "U+FF49", "U+FF4A", "U+FF4B", "U+FF4C", "U+FF4D", "U+FF4E", "U+FF4F",
       "U+FF50", "U+FF51", "U+FF52", "U+FF53", "U+FF54", "U+FF55", "U+FF56",
       "U+FF57", "U+FF58", "U+FF59", "U+FF5A", "U+10428", "U+10429",
       "U+1042A", "U+1042B", "U+1042C", "U+1042D", "U+1042E", "U+1042F",
       "U+10430", "U+10431", "U+10432", "U+10433", "U+10434", "U+10435",
       "U+10436", "U+10437", "U+10438", "U+10439", "U+1043A", "U+1043B",
       "U+1043C", "U+1043D", "U+1043E", "U+1043F", "U+10440", "U+10441",
       "U+10442", "U+10443", "U+10444", "U+10445", "U+10446", "U+10447",
       "U+10448", "U+10449", "U+1044A", "U+1044B", "U+1044C", "U+1044D",
       "U+1044E", "U+1044F", "U+104D8", "U+104D9", "U+104DA", "U+104DB",
       "U+104DC", "U+104DD", "U+104DE", "U+104DF", "U+104E0", "U+104E1",
       "U+104E2", "U+104E3", "U+104E4", "U+104E5", "U+104E6", "U+104E7",
       "U+104E8", "U+104E9", "U+104EA", "U+104EB", "U+104EC", "U+104ED",
       "U+104EE", "U+104EF", "U+104F0", "U+104F1", "U+104F2", "U+104F3",
       "U+104F4", "U+104F5", "U+104F6", "U+104F7", "U+104F8", "U+104F9",
       "U+104FA", "U+104FB", "U+10597", "U+10598", "U+10599", "U+1059A",
       "U+1059B", "U+1059C", "U+1059D", "U+1059E", "U+1059F", "U+105A0",
       "U+105A1", "U+105A3", "U+105A4", "U+105A5", "U+105A6", "U+105A7",
       "U+105A8", "U+105A9", "U+105AA", "U+105AB", "U+105AC", "U+105AD",
       "U+105AE", "U+105AF", "U+105B0", "U+105B1", "U+105B3", "U+105B4",
       "U+105B5", "U+105B6", "U+105B7", "U+105B8", "U+105B9", "U+105BB",
       "U+105BC", "U+10CC0", "U+10CC1", "U+10CC2", "U+10CC3", "U+10CC4",
       "U+10CC5", "U+10CC6", "U+10CC7", "U+10CC8", "U+10CC9", "U+10CCA",
       "U+10CCB", "U+10CCC", "U+10CCD", "U+10CCE", "U+10CCF", "U+10CD0",
       "U+10CD1", "U+10CD2", "U+10CD3", "U+10CD4", "U+10CD5", "U+10CD6",
       "U+10CD7", "U+10CD8", "U+10CD9", "U+10CDA", "U+10CDB", "U+10CDC",
       "U+10CDD", "U+10CDE", "U+10CDF", "U+10CE0", "U+10CE1", "U+10CE2",
       "U+10CE3", "U+10CE4", "U+10CE5", "U+10CE6", "U+10CE7", "U+10CE8",
       "U+10CE9", "U+10CEA", "U+10CEB", "U+10CEC", "U+10CED", "U+10CEE",
       "U+10CEF", "U+10CF0", "U+10CF1", "U+10CF2", "U+118C0", "U+118C1",
       "U+118C2", "U+118C3", "U+118C4", "U+118C5", "U+118C6", "U+118C7",
       "U+118C8", "U+118C9", "U+118CA", "U+118CB", "U+118CC", "U+118CD",
       "U+118CE", "U+118CF", "U+118D0", "U+118D1", "U+118D2", "U+118D3",
       "U+118D4", "U+118D5", "U+118D6", "U+118D7", "U+118D8", "U+118D9",
       "U+118DA", "U+118DB", "U+118DC", "U+118DD", "U+118DE", "U+118DF",
       "U+16E60", "U+16E61", "U+16E62", "U+16E63", "U+16E64", "U+16E65",
       "U+16E66", "U+16E67", "U+16E68", "U+16E69", "U+16E6A", "U+16E6B",
       "U+16E6C", "U+16E6D", "U+16E6E", "U+16E6F", "U+16E70", "U+16E71",
       "U+16E72", "U+16E73", "U+16E74", "U+16E75", "U+16E76", "U+16E77",
       "U+16E78", "U+16E79", "U+16E7A", "U+16E7B", "U+16E7C", "U+16E7D",
       "U+16E7E", "U+16E7F", "U+1E922", "U+1E923", "U+1E924", "U+1E925",
       "U+1E926", "U+1E927", "U+1E928", "U+1E929", "U+1E92A", "U+1E92B",
       "U+1E92C", "U+1E92D", "U+1E92E", "U+1E92F", "U+1E930", "U+1E931",
       "U+1E932", "U+1E933", "U+1E934", "U+1E935", "U+1E936", "U+1E937",
       "U+1E938", "U+1E939", "U+1E93A", "U+1E93B", "U+1E93C", "U+1E93D",
       "U+1E93E", "U+1E93F", "U+1E940", "U+1E941", "U+1E942", "U+1E943" >>

UpperLetters ==
    << <<"A">>, <<"B">>, <<"C">>, <<"D">>, <<"E">>, <<"F">>, <<"G">>,
       <<"H">>, <<"I">>, <<"J">>, <<"K">>, <<"L">>, <<"M">>, <<"N">>,
       <<"O">>, <<"P">>, <<"Q">>, <<"R">>, <<"S">>, <<"T">>, <<"U">>,
       <<"V">>, <<"W">>, <<"X">>, <<"Y">>, <<"Z">>, <<"Μ">>, <<"S", "S">>,
       <<"À">>, <<"Á">>, <<"Â">>, <<"Ã">>, <<"Ä">>, <<"Å">>, <<"Æ">>,
       <<"Ç">>, <<"È">>, <<"É">>, <<"Ê">>, <<"Ë">>, <<"Ì">>, <<"Í">>,
       <<"Î">>, <<"Ï">>, <<"Ð">>, <<"Ñ">>, <<"Ò">>, <<"Ó">>, <<"Ô">>,
       <<"Õ">>, <<"Ö">>, <<"Ø">>, <<"Ù">>, <<"Ú">>, <<"Û">>, <<"Ü">>,
       <<"Ý">>, <<"Þ">>, <<"U+0178">>, <<"U+0100">>, <<"U+0102">>,
       <<"U+0104">>, <<"U+0106">>, <<"U+0108">>, <<"U+010A">>, <<"U+010C">>,
       <<"U+010E">>, <<"U+0110">>, <<"U+0112">>, <<"U+0114">>, <<"U+0116">>,
       <<"U+0118">>, <<"U+011A">>, <<"U+011C">>, <<"U+011E">>, <<"U+0120">>,
       <<"U+0122">>, <<"U+0124">>, <<"U+0126">>, <<"U+0128">>, <<"U+012A">>,
       <<"U+012C">>, <<"U+012E">>, <<"I">>, <<"U+0132">>, <<"U+0134">>,
       <<"U+0136">>, <<"U+0139">>, <<"U+013B">>, <<"U+013D">>, <<"U+013F">>,
       <<"U+0141">>, <<"U+0143">>, <<"U+0145">>, <<"U+0147">>, <<"ʼ", "N">>,
       <<"U+014A">>, <<"U+014C">>, <<"U+014E">>, <<"U+0150">>, <<"U+0152">>,
       <<"U+0154">>, <<"U+0156">>, <<"U+0158">>, <<"U+015A">>, <<"U+015C">>,
       <<"U+015E">>, <<"U+0160">>, <<"U+0162">>, <<"U+0164">>, <<"U+0166">>,
       <<"U+0168">>, <<"U+016A">>, <<"U+016C">>, <<"U+016E">>, <<"U+0170">>,
       <<"U+0172">>, <<"U+0174">>, <<"U+0176">>, <<"U+0179">>, <<"U+017B">>,
       <<"U+017D">>, <<"S">>, <<"U+0243">>, <<"Ƃ">>, <<"Ƅ">>, <<"Ƈ">>,
       <<"Ƌ">>, <<"Ƒ">>, <<"Ƕ">>, <<"Ƙ">>, <<"U+023D">>, <<"U+0220">>,
       <<"Ơ">>, <<"Ƣ">>, <<"Ƥ">>, <<"Ƨ">>, <<"Ƭ">>, <<"Ư">>, <<"Ƴ">>,
       <<"Ƶ">>, <<"Ƹ">>, <<"Ƽ">>, <<"Ƿ">>, <<"Ǆ">>, <<"Ǆ">>, <<"Ǉ">>,
       <<"Ǉ">>, <<"Ǌ">>, <<"Ǌ">>, <<"Ǎ">>, <<"Ǐ">>, <<"Ǒ">>, <<"Ǔ">>,
       <<"Ǖ">>, <<"Ǘ">>, <<"Ǚ">>, <<"Ǜ">>, <<"Ǝ">>, <<"Ǟ">>, <<"Ǡ">>,
       <<"Ǣ">>, <<"Ǥ">>, <<"Ǧ">>, <<"Ǩ">>, <<"Ǫ">>, <<"Ǭ">>, <<"Ǯ">>,
       <<"J", "U+030C">>, <<"Ǳ">>, <<"Ǳ">>, <<"Ǵ">>, <<"Ǹ">>, <<"Ǻ">>,
       <<"Ǽ">>, <<"Ǿ">>, <<"U+0200">>, <<"U+0202">>, <<"U+0204">>,
       <<"U+0206">>, <<"U+0208">>, <<"U+020A">>, <<"U+020C">>, <<"U+020E">>,
       <<"U+0210">>, <<"U+0212">>, <<"U+0214">>, <<"U+0216">>, <<"U+0218">>,
       <<"U+021A">>, <<"U+021C">>, <<"U+021E">>, <<"U+0222">>, <<"U+0224">>,
       <<"U+0226">>, <<"U+0228">>, <<"U+022A">>, <<"U+022C">>, <<"U+022E">>,
       <<"U+0230">>, <<"U+0232">>, <<"U+023B">>, <<"U+2C7E">>, <<"U+2C7F">>,
       <<"U+0241">>, <<"U+0246">>, <<"U+0248">>, <<"U+024A">>, <<"U+024C">>,
       <<"U+024E">>, <<"U+2C6F">>, <<"U+2C6D">>, <<"U+2C70">>, <<"Ɓ">>,
       <<"Ɔ">>, <<"Ɖ">>, <<"Ɗ">>, <<"Ə">>, <<"Ɛ">>, <<"Ɜ">>, <<"Ɠ">>,
       <<"Ɡ">>, <<"Ɣ">>, <<"Ɥ">>, <<"Ɦ">>, <<"Ɨ">>, <<"Ɩ">>, <<"Ɪ">>,
       <<"U+2C62">>, <<"Ɬ">>, <<"Ɯ">>, <<"U+2C6E">>, <<"Ɲ">>, <<"Ɵ">>,
       <<"U+2C64">>, <<"Ʀ">>, <<"Ʂ">>, <<"Ʃ">>, <<"Ʇ">>, <<"Ʈ">>,
       <<"U+0244">>, <<"Ʊ">>, <<"Ʋ">>, <<"U+0245">>, <<"Ʒ">>, <<"Ʝ">>,
       <<"Ʞ">>, <<"Ι">>, <<"U+0370">>, <<"U+0372">>, <<"U+0376">>, <<"Ͻ">>,
       <<"Ͼ">>, <<"Ͽ">>, <<"Ι", "U+0308", "U+0301">>, <<"Ά">>, <<"Έ">>,
       <<"Ή">>, <<"Ί">>, <<"Υ", "U+0308", "U+0301">>, <<"Α">>, <<"Β">>,
       <<"Γ">>, <<"Δ">>, <<"Ε">>, <<"Ζ">>, <<"Η">>, <<"Θ">>, <<"Ι">>,
       <<"Κ">>, <<"Λ">>, <<"Μ">>, <<"Ν">>, <<"Ξ">>, <<"Ο">>, <<"Π">>,
       <<"Ρ">>, <<"Σ">>, <<"Σ">>, <<"Τ">>, <<"Υ">>, <<"Φ">>, <<"Χ">>,
       <<"Ψ">>, <<"Ω">>, <<"Ϊ">>, <<"Ϋ">>, <<"Ό">>, <<"Ύ">>, <<"Ώ">>,
       <<"Β">>, <<"Θ">>, <<"Φ">>, <<"Π">>, <<"Ϗ">>, <<"Ϙ">>, <<"Ϛ">>,
       <<"Ϝ">>, <<"Ϟ">>, <<"Ϡ">>, <<"Ϣ">>, <<"Ϥ">>, <<"Ϧ">>, <<"Ϩ">>,
       <<"Ϫ">>, <<"Ϭ">>, <<"Ϯ">>, <<"Κ">>, <<"Ρ">>, <<"Ϲ">>, <<"U+037F">>,
       <<"Ε">>, <<"Ϸ">>, <<"Ϻ">>, <<"U+0410">>, <<"U+0411">>, <<"U+0412">>,
       <<"U+0413">>, <<"U+0414">>, <<"U+0415">>, <<"U+0416">>, <<"U+0417">>,
       <<"U+0418">>, <<"U+0419">>, <<"U+041A">>, <<"U+041B">>, <<"U+041C">>,
       <<"U+041D">>, <<"U+041E">>, <<"U+041F">>, <<"U+0420">>, <<"U+0421">>,
       <<"U+0422">>, <<"U+0423">>, <<"U+0424">>, <<"U+0425">>, <<"U+0426">>,
       <<"U+0427">>, <<"U+0428">>, <<"U+0429">>, <<"U+042A">>, <<"U+042B">>,
       <<"U+042C">>, <<"U+042D">>, <<"U+042E">>, <<"U+042F">>, <<"U+0400">>,
       <<"U+0401">>, <<"U+0402">>, <<"U+0403">>, <<"U+0404">>, <<"U+0405">>,
       <<"U+0406">>, <<"U+0407">>, <<"U+0408">>, <<"U+0409">>, <<"U+040A">>,
       <<"U+040B">>, <<"U+040C">>, <<"U+040D">>, <<"U+040E">>, <<"U+040F">>,
       <<"U+0460">>, <<"U+0462">>, <<"U+0464">>, <<"U+0466">>, <<"U+0468">>,
       <<"U+046A">>, <<"U+046C">>, <<"U+046E">>, <<"U+0470">>, <<"U+0472">>,
       <<"U+0474">>, <<"U+0476">>, <<"U+0478">>, <<"U+047A">>, <<"U+047C">>,
       <<"U+047E">>, <<"Ҁ">>, <<"Ҋ">>, <<"Ҍ">>, <<"Ҏ">>, <<"Ґ">>, <<"Ғ">>,
       <<"Ҕ">>, <<"Җ">>, <<"Ҙ">>, <<"Қ">>, <<"Ҝ">>, <<"Ҟ">>, <<"Ҡ">>,
       <<"Ң">>, <<"Ҥ">>, <<"Ҧ">>, <<"Ҩ">>, <<"Ҫ">>, <<"Ҭ">>, <<"Ү">>,
       <<"Ұ">>, <<"Ҳ">>, <<"Ҵ">>, <<"Ҷ">>, <<"Ҹ">>, <<"Һ">>, <<"Ҽ">>,
       <<"Ҿ">>, <<"Ӂ">>, <<"Ӄ">>, <<"Ӆ">>, <<"Ӈ">>, <<"Ӊ">>, <<"Ӌ">>,
       <<"Ӎ">>, <<"Ӏ">>, <<"Ӑ">>, <<"Ӓ">>, <<"Ӕ">>, <<"Ӗ">>, <<"Ә">>,
       <<"Ӛ">>, <<"Ӝ">>, <<"Ӟ">>, <<"Ӡ">>, <<"Ӣ">>, <<"Ӥ">>, <<"Ӧ">>,
       <<"Ө">>, <<"Ӫ">>, <<"Ӭ">>, <<"Ӯ">>, <<"Ӱ">>, <<"Ӳ">>, <<"Ӵ">>,
       <<"Ӷ">>, <<"Ӹ">>, <<"Ӻ">>, <<"Ӽ">>, <<"Ӿ">>, <<"U+0500">>,
       <<"U+0502">>, <<"U+0504">>, <<"U+0506">>, <<"U+0508">>, <<"U+050A">>,
       <<"U+050C">>, <<"U+050E">>, <<"U+0510">>, <<"U+0512">>, <<"U+0514">>,
       <<"U+0516">>, <<"U+0518">>, <<"U+051A">>, <<"U+051C">>, <<"U+051E">>,
       <<"U+0520">>, <<"U+0522">>, <<"U+0524">>, <<"U+0526">>, <<"U+0528">>,
       <<"U+052A">>, <<"U+052C">>, <<"U+052E">>, <<"U+0531">>, <<"U+0532">>,
       <<"U+0533">>, <<"U+0534">>, <<"U+0535">>, <<"U+0536">>, <<"U+0537">>,
       <<"U+0538">>, <<"U+0539">>, <<"U+053A">>, <<"U+053B">>, <<"U+053C">>,
       <<"U+053D">>, <<"U+053E">>, <<"U+053F">>, <<"U+0540">>, <<"U+0541">>,
       <<"U+0542">>, <<"U+0543">>, <<"U+0544">>, <<"U+0545">>, <<"U+0546">>,
       <<"U+0547">>, <<"U+0548">>, <<"U+0549">>, <<"U+054A">>, <<"U+054B">>,
       <<"U+054C">>, <<"U+054D">>, <<"U+054E">>, <<"U+054F">>, <<"U+0550">>,
       <<"U+0551">>, <<"U+0552">>, <<"U+0553">>, <<"U+0554">>, <<"U+0555">>,
       <<"U+0556">>, <<"U+0535", "U+0552">>, <<"Ა">>, <<"Ბ">>, <<"Გ">>,
       <<"Დ">>, <<"Ე">>, <<"Ვ">>, <<"Ზ">>, <<"Თ">>, <<"Ი">>, <<"Კ">>,
       <<"Ლ">>, <<"Მ">>, <<"Ნ">>, <<"Ო">>, <<"Პ">>, <<"Ჟ">>, <<"Რ">>,
       <<"Ს">>, <<"Ტ">>, <<"Უ">>, <<"Ფ">>, <<"Ქ">>, <<"Ღ">>, <<"Ყ">>,
       <<"Შ">>, <<"Ჩ">>, <<"Ც">>, <<"Ძ">>, <<"Წ">>, <<"Ჭ">>, <<"Ხ">>,
       <<"Ჯ">>, <<"Ჰ">>, <<"Ჱ">>, <<"Ჲ">>, <<"Ჳ">>, <<"Ჴ">>, <<"Ჵ">>,
       <<"Ჶ">>, <<"Ჷ">>, <<"Ჸ">>, <<"Ჹ">>, <<"Ჺ">>, <<"Ჽ">>, <<"Ჾ">>,
       <<"Ჿ">>, <<"Ᏸ">>, <<"Ᏹ">>, <<"Ᏺ">>, <<"Ᏻ">>, <<"Ᏼ">>, <<"Ᏽ">>,
       <<"U+0412">>, <<"U+0414">>, <<"U+041E">>, <<"U+0421">>, <<"U+0422">>,
       <<"U+0422">>, <<"U+042A">>, <<"U+0462">>, <<"U+A64A">>, <<"U+A77D">>,
       <<"U+2C63">>, <<"Ᶎ">>, <<"U+1E00">>, <<"U+1E02">>, <<"U+1E04">>,
       <<"U+1E06">>, <<"U+1E08">>, <<"U+1E0A">>, <<"U+1E0C">>, <<"U+1E0E">>,
       <<"U+1E10">>, <<"U+1E12">>, <<"U+1E14">>, <<"U+1E16">>, <<"U+1E18">>,
       <<"U+1E1A">>, <<"U+1E1C">>, <<"U+1E1E">>, <<"U+1E20">>, <<"U+1E22">>,
       <<"U+1E24">>, <<"U+1E26">>, <<"U+1E28">>, <<"U+1E2A">>, <<"U+1E2C">>,
       <<"U+1E2E">>, <<"U+1E30">>, <<"U+1E32">>, <<"U+1E34">>, <<"U+1E36">>,
       <<"U+1E38">>, <<"U+1E3A">>, <<"U+1E3C">>, <<"U+1E3E">>, <<"U+1E40">>,
       <<"U+1E42">>, <<"U+1E44">>, <<"U+1E46">>, <<"U+1E48">>, <<"U+1E4A">>,
       <<"U+1E4C">>, <<"U+1E4E">>, <<"U+1E50">>, <<"U+1E52">>, <<"U+1E54">>,
       <<"U+1E56">>, <<"U+1E58">>, <<"U+1E5A">>, <<"U+1E5C">>, <<"U+1E5E">>,
       <<"U+1E60">>, <<"U+1E62">>, <<"U+1E64">>, <<"U+1E66">>, <<"U+1E68">>,
       <<"U+1E6A">>, <<"U+1E6C">>, <<"U+1E6E">>, <<"U+1E70">>, <<"U+1E72">>,
       <<"U+1E74">>, <<"U+1E76">>, <<"U+1E78">>, <<"U+1E7A">>, <<"U+1E7C">>,
       <<"U+1E7E">>, <<"Ẁ">>, <<"Ẃ">>, <<"Ẅ">>, <<"Ẇ">>, <<"Ẉ">>, <<"Ẋ">>,
       <<"Ẍ">>, <<"Ẏ">>, <<"Ẑ">>, <<"Ẓ">>, <<"Ẕ">>, <<"H", "U+0331">>,
       <<"T", "U+0308">>, <<"W", "U+030A">>, <<"Y", "U+030A">>, <<"A", "ʾ">>,
       <<"U+1E60">>, <<"Ạ">>, <<"Ả">>, <<"Ấ">>, <<"Ầ">>, <<"Ẩ">>, <<"Ẫ">>,
       <<"Ậ">>, <<"Ắ">>, <<"Ằ">>, <<"Ẳ">>, <<"Ẵ">>, <<"Ặ">>, <<"Ẹ">>,
       <<"Ẻ">>, <<"Ẽ">>, <<"Ế">>, <<"Ề">>, <<"Ể">>, <<"Ễ">>, <<"Ệ">>,
       <<"Ỉ">>, <<"Ị">>, <<"Ọ">>, <<"Ỏ">>, <<"Ố">>, <<"Ồ">>, <<"Ổ">>,
       <<"Ỗ">>, <<"Ộ">>, <<"Ớ">>, <<"Ờ">>, <<"Ở">>, <<"Ỡ">>, <<"Ợ">>,
       <<"Ụ">>, <<"Ủ">>, <<"Ứ">>, <<"Ừ">>, <<"Ử">>, <<"Ữ">>, <<"Ự">>,
       <<"Ỳ">>, <<"Ỵ">>, <<"Ỷ">>, <<"Ỹ">>, <<"Ỻ">>, <<"Ỽ">>, <<"Ỿ">>,
       <<"U+1F08">>, <<"U+1F09">>, <<"U+1F0A">>, <<"U+1F0B">>, <<"U+1F0C">>,
       <<"U+1F0D">>, <<"U+1F0E">>, <<"U+1F0F">>, <<"U+1F18">>, <<"U+1F19">>,
       <<"U+1F1A">>, <<"U+1F1B">>, <<"U+1F1C">>, <<"U+1F1D">>, <<"U+1F28">>,
       <<"U+1F29">>, <<"U+1F2A">>, <<"U+1F2B">>, <<"U+1F2C">>, <<"U+1F2D">>,
       <<"U+1F2E">>, <<"U+1F2F">>, <<"U+1F38">>, <<"U+1F39">>, <<"U+1F3A">>,
       <<"U+1F3B">>, <<"U+1F3C">>, <<"U+1F3D">>, <<"U+1F3E">>, <<"U+1F3F">>,
       <<"U+1F48">>, <<"U+1F49">>, <<"U+1F4A">>, <<"U+1F4B">>, <<"U+1F4C">>,
       <<"U+1F4D">>, <<"Υ", "U+0313">>, <<"U+1F59">>,
       <<"Υ", "U+0313", "U+0300">>, <<"U+1F5B">>,
       <<"Υ", "U+0313", "U+0301">>, <<"U+1F5D">>,
       <<"Υ", "U+0313", "U+0342">>, <<"U+1F5F">>, <<"U+1F68">>, <<"U+1F69">>,
       <<"U+1F6A">>, <<"U+1F6B">>, <<"U+1F6C">>, <<"U+1F6D">>, <<"U+1F6E">>,
       <<"U+1F6F">>, <<"Ὰ">>, <<"Ά">>, <<"Ὲ">>, <<"Έ">>, <<"Ὴ">>, <<"Ή">>,
       <<"Ὶ">>, <<"Ί">>, <<"Ὸ">>, <<"Ό">>, <<"Ὺ">>, <<"Ύ">>, <<"Ὼ">>,
       <<"Ώ">>, <<"U+1F08", "Ι">>, <<"U+1F09", "Ι">>, <<"U+1F0A", "Ι">>,
       <<"U+1F0B", "Ι">>, <<"U+1F0C", "Ι">>, <<"U+1F0D", "Ι">>,
       <<"U+1F0E", "Ι">>, <<"U+1F0F", "Ι">>, <<"U+1F08", "Ι">>,
       <<"U+1F09", "Ι">>, <<"U+1F0A", "Ι">>, <<"U+1F0B", "Ι">>,
       <<"U+1F0C", "Ι">>, <<"U+1F0D", "Ι">>, <<"U+1F0E", "Ι">>,
       <<"U+1F0F", "Ι">>, <<"U+1F28", "Ι">>, <<"U+1F29", "Ι">>,
       <<"U+1F2A", "Ι">>, <<"U+1F2B", "Ι">>, <<"U+1F2C", "Ι">>,
       <<"U+1F2D", "Ι">>, <<"U+1F2E", "Ι">>, <<"U+1F2F", "Ι">>,
       <<"U+1F28", "Ι">>, <<"U+1F29", "Ι">>, <<"U+1F2A", "Ι">>,
       <<"U+1F2B", "Ι">>, <<"U+1F2C", "Ι">>, <<"U+1F2D", "Ι">>,
       <<"U+1F2E", "Ι">>, <<"U+1F2F", "Ι">>, <<"U+1F68", "Ι">>,
       <<"U+1F69", "Ι">>, <<"U+1F6A", "Ι">>, <<"U+1F6B", "Ι">>,
       <<"U+1F6C", "Ι">>, <<"U+1F6D", "Ι">>, <<"U+1F6E", "Ι">>,
       <<"U+1F6F", "Ι">>, <<"U+1F68", "Ι">>, <<"U+1F69", "Ι">>,
       <<"U+1F6A", "Ι">>, <<"U+1F6B", "Ι">>, <<"U+1F6C", "Ι">>,
       <<"U+1F6D", "Ι">>, <<"U+1F6E", "Ι">>, <<"U+1F6F", "Ι">>, <<"Ᾰ">>,
       <<"Ᾱ">>, <<"Ὰ", "Ι">>, <<"Α", "Ι">>, <<"Ά", "Ι">>, <<"Α", "U+0342">>,
       <<"Α", "U+0342", "Ι">>, <<"Α", "Ι">>, <<"Ι">>, <<"Ὴ", "Ι">>,
       <<"Η", "Ι">>, <<"Ή", "Ι">>, <<"Η", "U+0342">>, <<"Η", "U+0342", "Ι">>,
       <<"Η", "Ι">>, <<"Ῐ">>, <<"Ῑ">>, <<"Ι", "U+0308", "U+0300">>,
       <<"Ι", "U+0308", "U+0301">>, <<"Ι", "U+0342">>,
       <<"Ι", "U+0308", "U+0342">>, <<"Ῠ">>, <<"Ῡ">>,
       <<"Υ", "U+0308", "U+0300">>, <<"Υ", "U+0308", "U+0301">>,
       <<"Ρ", "U+0313">>, <<"Ῥ">>, <<"Υ", "U+0342">>,
       <<"Υ", "U+0308", "U+0342">>, <<"Ὼ", "Ι">>, <<"Ω", "Ι">>, <<"Ώ", "Ι">>,
       <<"Ω", "U+0342">>, <<"Ω", "U+0342", "Ι">>, <<"Ω", "Ι">>, <<"U+2132">>,
       <<"U+2160">>, <<"U+2161">>, <<"U+2162">>, <<"U+2163">>, <<"U+2164">>,
       <<"U+2165">>, <<"U+2166">>, <<"U+2167">>, <<"U+2168">>, <<"U+2169">>,
       <<"U+216A">>, <<"U+216B">>, <<"U+216C">>, <<"U+216D">>, <<"U+216E">>,
       <<"U+216F">>, <<"Ↄ">>, <<"Ⓐ">>, <<"Ⓑ">>, <<"Ⓒ">>, <<"Ⓓ">>, <<"Ⓔ">>,
       <<"Ⓕ">>, <<"Ⓖ">>, <<"Ⓗ">>, <<"Ⓘ">>, <<"Ⓙ">>, <<"Ⓚ">>, <<"Ⓛ">>,
       <<"Ⓜ">>, <<"Ⓝ">>, <<"Ⓞ">>, <<"Ⓟ">>, <<"Ⓠ">>, <<"Ⓡ">>, <<"Ⓢ">>,
       <<"Ⓣ">>, <<"Ⓤ">>, <<"Ⓥ">>, <<"Ⓦ">>, <<"Ⓧ">>, <<"Ⓨ">>, <<"Ⓩ">>,
       <<"U+2C00">>, <<"U+2C01">>, <<"U+2C02">>, <<"U+2C03">>, <<"U+2C04">>,
       <<"U+2C05">>, <<"U+2C06">>, <<"U+2C07">>, <<"U+2C08">>, <<"U+2C09">>,
       <<"U+2C0A">>, <<"U+2C0B">>, <<"U+2C0C">>, <<"U+2C0D">>, <<"U+2C0E">>,
       <<"U+2C0F">>, <<"U+2C10">>, <<"U+2C11">>, <<"U+2C12">>, <<"U+2C13">>,
       <<"U+2C14">>, <<"U+2C15">>, <<"U+2C16">>, <<"U+2C17">>, <<"U+2C18">>,
       <<"U+2C19">>, <<"U+2C1A">>, <<"U+2C1B">>, <<"U+2C1C">>, <<"U+2C1D">>,
       <<"U+2C1E">>, <<"U+2C1F">>, <<"U+2C20">>, <<"U+2C21">>, <<"U+2C22">>,
       <<"U+2C23">>, <<"U+2C24">>, <<"U+2C25">>, <<"U+2C26">>, <<"U+2C27">>,
       <<"U+2C28">>, <<"U+2C29">>, <<"U+2C2A">>, <<"U+2C2B">>, <<"U+2C2C">>,
       <<"U+2C2D">>, <<"U+2C2E">>, <<"U+2C2F">>, <<"U+2C60">>, <<"U+023A">>,
       <<"U+023E">>, <<"U+2C67">>, <<"U+2C69">>, <<"U+2C6B">>, <<"U+2C72">>,
       <<"U+2C75">>, <<"Ⲁ">>, <<"Ⲃ">>, <<"Ⲅ">>, <<"Ⲇ">>, <<"Ⲉ">>, <<"Ⲋ">>,
       <<"Ⲍ">>, <<"Ⲏ">>, <<"Ⲑ">>, <<"Ⲓ">>, <<"Ⲕ">>, <<"Ⲗ">>, <<"Ⲙ">>,
       <<"Ⲛ">>, <<"Ⲝ">>, <<"Ⲟ">>, <<"Ⲡ">>, <<"Ⲣ">>, <<"Ⲥ">>, <<"Ⲧ">>,
       <<"Ⲩ">>, <<"Ⲫ">>, <<"Ⲭ">>, <<"Ⲯ">>, <<"Ⲱ">>, <<"Ⲳ">>, <<"Ⲵ">>,
       <<"Ⲷ">>, <<"Ⲹ">>, <<"Ⲻ">>, <<"Ⲽ">>, <<"Ⲿ">>, <<"Ⳁ">>, <<"Ⳃ">>,
       <<"Ⳅ">>, <<"Ⳇ">>, <<"Ⳉ">>, <<"Ⳋ">>, <<"Ⳍ">>, <<"Ⳏ">>, <<"Ⳑ">>,
       <<"Ⳓ">>, <<"Ⳕ">>, <<"Ⳗ">>, <<"Ⳙ">>, <<"Ⳛ">>, <<"Ⳝ">>, <<"Ⳟ">>,
       <<"Ⳡ">>, <<"Ⳣ">>, <<"Ⳬ">>, <<"Ⳮ">>, <<"Ⳳ">>, <<"Ⴀ">>, <<"Ⴁ">>,
       <<"Ⴂ">>, <<"Ⴃ">>, <<"Ⴄ">>, <<"Ⴅ">>, <<"Ⴆ">>, <<"Ⴇ">>, <<"Ⴈ">>,
       <<"Ⴉ">>, <<"Ⴊ">>, <<"Ⴋ">>, <<"Ⴌ">>, <<"Ⴍ">>, <<"Ⴎ">>, <<"Ⴏ">>,
       <<"Ⴐ">>, <<"Ⴑ">>, <<"Ⴒ">>, <<"Ⴓ">>, <<"Ⴔ">>, <<"Ⴕ">>, <<"Ⴖ">>,
       <<"Ⴗ">>, <<"Ⴘ">>, <<"Ⴙ">>, <<"Ⴚ">>, <<"Ⴛ">>, <<"Ⴜ">>, <<"Ⴝ">>,
       <<"Ⴞ">>, <<"Ⴟ">>, <<"Ⴠ">>, <<"Ⴡ">>, <<"Ⴢ">>, <<"Ⴣ">>, <<"Ⴤ">>,
       <<"Ⴥ">>, <<"Ⴧ">>, <<"Ⴭ">>, <<"U+A640">>, <<"U+A642">>, <<"U+A644">>,
       <<"U+A646">>, <<"U+A648">>, <<"U+A64A">>, <<"U+A64C">>, <<"U+A64E">>,
       <<"U+A650">>, <<"U+A652">>, <<"U+A654">>, <<"U+A656">>, <<"U+A658">>,
       <<"U+A65A">>, <<"U+A65C">>, <<"U+A65E">>, <<"U+A660">>, <<"U+A662">>,
       <<"U+A664">>, <<"U+A666">>, <<"U+A668">>, <<"U+A66A">>, <<"U+A66C">>,
       <<"Ꚁ">>, <<"Ꚃ">>, <<"Ꚅ">>, <<"Ꚇ">>, <<"Ꚉ">>, <<"Ꚋ">>, <<"Ꚍ">>,
       <<"Ꚏ">>, <<"Ꚑ">>, <<"Ꚓ">>, <<"Ꚕ">>, <<"Ꚗ">>, <<"Ꚙ">>, <<"Ꚛ">>,
       <<"U+A722">>, <<"U+A724">>, <<"U+A726">>, <<"U+A728">>, <<"U+A72A">>,
       <<"U+A72C">>, <<"U+A72E">>, <<"U+A732">>, <<"U+A734">>, <<"U+A736">>,
       <<"U+A738">>, <<"U+A73A">>, <<"U+A73C">>, <<"U+A73E">>, <<"U+A740">>,
       <<"U+A742">>, <<"U+A744">>, <<"U+A746">>, <<"U+A748">>, <<"U+A74A">>,
       <<"U+A74C">>, <<"U+A74E">>, <<"U+A750">>, <<"U+A752">>, <<"U+A754">>,
       <<"U+A756">>, <<"U+A758">>, <<"U+A75A">>, <<"U+A75C">>, <<"U+A75E">>,
       <<"U+A760">>, <<"U+A762">>, <<"U+A764">>, <<"U+A766">>, <<"U+A768">>,
       <<"U+A76A">>, <<"U+A76C">>, <<"U+A76E">>, <<"U+A779">>, <<"U+A77B">>,
       <<"U+A77E">>, <<"Ꞁ">>, <<"Ꞃ">>, <<"Ꞅ">>, <<"Ꞇ">>, <<"Ꞌ">>, <<"Ꞑ">>,
       <<"Ꞓ">>, <<"Ꞔ">>, <<"Ꞗ">>, <<"Ꞙ">>, <<"Ꞛ">>, <<"Ꞝ">>, <<"Ꞟ">>,
       <<"Ꞡ">>, <<"Ꞣ">>, <<"Ꞥ">>, <<"Ꞧ">>, <<"Ꞩ">>, <<"Ꞵ">>, <<"Ꞷ">>,
       <<"Ꞹ">>, <<"Ꞻ">>, <<"Ꞽ">>, <<"Ꞿ">>, <<"Ꟁ">>, <<"Ꟃ">>, <<"Ꟈ">>,
       <<"Ꟊ">>, <<"Ꟑ">>, <<"Ꟗ">>, <<"Ꟙ">>, <<"Ꟶ">>, <<"Ꭓ">>, <<"Ꭰ">>,
       <<"Ꭱ">>, <<"Ꭲ">>, <<"Ꭳ">>, <<"Ꭴ">>, <<"Ꭵ">>, <<"Ꭶ">>, <<"Ꭷ">>,
       <<"Ꭸ">>, <<"Ꭹ">>, <<"Ꭺ">>, <<"Ꭻ">>, <<"Ꭼ">>, <<"Ꭽ">>, <<"Ꭾ">>,
       <<"Ꭿ">>, <<"Ꮀ">>, <<"Ꮁ">>, <<"Ꮂ">>, <<"Ꮃ">>, <<"Ꮄ">>, <<"Ꮅ">>,
       <<"Ꮆ">>, <<"Ꮇ">>, <<"Ꮈ">>, <<"Ꮉ">>, <<"Ꮊ">>, <<"Ꮋ">>, <<"Ꮌ">>,
       <<"Ꮍ">>, <<"Ꮎ">>, <<"Ꮏ">>, <<"Ꮐ">>, <<"Ꮑ">>, <<"Ꮒ">>, <<"Ꮓ">>,
       <<"Ꮔ">>, <<"Ꮕ">>, <<"Ꮖ">>, <<"Ꮗ">>, <<"Ꮘ">>, <<"Ꮙ">>, <<"Ꮚ">>,
       <<"Ꮛ">>, <<"Ꮜ">>, <<"Ꮝ">>, <<"Ꮞ">>, <<"Ꮟ">>, <<"Ꮠ">>, <<"Ꮡ">>,
       <<"Ꮢ">>, <<"Ꮣ">>, <<"Ꮤ">>, <<"Ꮥ">>, <<"Ꮦ">>, <<"Ꮧ">>, <<"Ꮨ">>,
       <<"Ꮩ">>, <<"Ꮪ">>, <<"Ꮫ">>, <<"Ꮬ">>, <<"Ꮭ">>, <<"Ꮮ">>, <<"Ꮯ">>,
       <<"Ꮰ">>, <<"Ꮱ">>, <<"Ꮲ">>, <<"Ꮳ">>, <<"Ꮴ">>, <<"Ꮵ">>, <<"Ꮶ">>,
       <<"Ꮷ">>, <<"Ꮸ">>, <<"Ꮹ">>, <<"Ꮺ">>, <<"Ꮻ">>, <<"Ꮼ">>, <<"Ꮽ">>,
       <<"Ꮾ">>, <<"Ꮿ">>, <<"F", "F">>, <<"F", "I">>, <<"F", "L">>,
       <<"F", "F", "I">>, <<"F", "F", "L">>, <<"S", "T">>, <<"S", "T">>,
       <<"U+0544", "U+0546">>, <<"U+0544", "U+0535">>,
       <<"U+0544", "U+053B">>, <<"U+054E", "U+0546">>,
       <<"U+0544", "U+053D">>, <<"U+FF21">>, <<"U+FF22">>, <<"U+FF23">>,
       <<"U+FF24">>, <<"U+FF25">>, <<"U+FF26">>, <<"U+FF27">>, <<"U+FF28">>,
       <<"U+FF29">>, <<"U+FF2A">>, <<"U+FF2B">>, <<"U+FF2C">>, <<"U+FF2D">>,
       <<"U+FF2E">>, <<"U+FF2F">>, <<"U+FF30">>, <<"U+FF31">>, <<"U+FF32">>,
       <<"U+FF33">>, <<"U+FF34">>, <<"U+FF35">>, <<"U+FF36">>, <<"U+FF37">>,
       <<"U+FF38">>, <<"U+FF39">>, <<"U+FF3A">>, <<"U+10400">>,
       <<"U+10401">>, <<"U+10402">>, <<"U+10403">>, <<"U+10404">>,
       <<"U+10405">>, <<"U+10406">>, <<"U+10407">>, <<"U+10408">>,
       <<"U+10409">>, <<"U+1040A">>, <<"U+1040B">>, <<"U+1040C">>,
       <<"U+1040D">>, <<"U+1040E">>, <<"U+1040F">>, <<"U+10410">>,
       <<"U+10411">>, <<"U+10412">>, <<"U+10413">>, <<"U+10414">>,
       <<"U+10415">>, <<"U+10416">>, <<"U+10417">>, <<"U+10418">>,
       <<"U+10419">>, <<"U+1041A">>, <<"U+1041B">>, <<"U+1041C">>,
       <<"U+1041D">>, <<"U+1041E">>, <<"U+1041F">>, <<"U+10420">>,
       <<"U+10421">>, <<"U+10422">>, <<"U+10423">>, <<"U+10424">>,
       <<"U+10425">>, <<"U+10426">>, <<"U+10427">>, <<"U+104B0">>,
       <<"U+104B1">>, <<"U+104B2">>, <<"U+104B3">>, <<"U+104B4">>,
       <<"U+104B5">>, <<"U+104B6">>, <<"U+104B7">>, <<"U+104B8">>,
       <<"U+104B9">>, <<"U+104BA">>, <<"U+104BB">>, <<"U+104BC">>,
       <<"U+104BD">>, <<"U+104BE">>, <<"U+104BF">>, <<"U+104C0">>,
       <<"U+104C1">>, <<"U+104C2">>, <<"U+104C3">>, <<"U+104C4">>,
       <<"U+104C5">>, <<"U+104C6">>, <<"U+104C7">>, <<"U+104C8">>,
       <<"U+104C9">>, <<"U+104CA">>, <<"U+104CB">>, <<"U+104CC">>,
       <<"U+104CD">>, <<"U+104CE">>, <<"U+104CF">>, <<"U+104D0">>,
       <<"U+104D1">>, <<"U+104D2">>, <<"U+104D3">>, <<"U+10570">>,
       <<"U+10571">>, <<"U+10572">>, <<"U+10573">>, <<"U+10574">>,
       <<"U+10575">>, <<"U+10576">>, <<"U+10577">>, <<"U+10578">>,
       <<"U+10579">>, <<"U+1057A">>, <<"U+1057C">>, <<"U+1057D">>,
       <<"U+1057E">>, <<"U+1057F">>, <<"U+10580">>, <<"U+10581">>,
       <<"U+10582">>, <<"U+10583">>, <<"U+10584">>, <<"U+10585">>,
       <<"U+10586">>, <<"U+10587">>, <<"U+10588">>, <<"U+10589">>,
       <<"U+1058A">>, <<"U+1058C">>, <<"U+1058D">>, <<"U+1058E">>,
       <<"U+1058F">>, <<"U+10590">>, <<"U+10591">>, <<"U+10592">>,
       <<"U+10594">>, <<"U+10595">>, <<"U+10C80">>, <<"U+10C81">>,
       <<"U+10C82">>, <<"U+10C83">>, <<"U+10C84">>, <<"U+10C85">>,
       <<"U+10C86">>, <<"U+10C87">>, <<"U+10C88">>, <<"U+10C89">>,
       <<"U+10C8A">>, <<"U+10C8B">>, <<"U+10C8C">>, <<"U+10C8D">>,
       <<"U+10C8E">>, <<"U+10C8F">>, <<"U+10C90">>, <<"U+10C91">>,
       <<"U+10C92">>, <<"U+10C93">>, <<"U+10C94">>, <<"U+10C95">>,
       <<"U+10C96">>, <<"U+10C97">>, <<"U+10C98">>, <<"U+10C99">>,
       <<"U+10C9A">>, <<"U+10C9B">>, <<"U+10C9C">>, <<"U+10C9D">>,
       <<"U+10C9E">>, <<"U+10C9F">>, <<"U+10CA0">>, <<"U+10CA1">>,
       <<"U+10CA2">>, <<"U+10CA3">>, <<"U+10CA4">>, <<"U+10CA5">>,
       <<"U+10CA6">>, <<"U+10CA7">>, <<"U+10CA8">>, <<"U+10CA9">>,
       <<"U+10CAA">>, <<"U+10CAB">>, <<"U+10CAC">>, <<"U+10CAD">>,
       <<"U+10CAE">>, <<"U+10CAF">>, <<"U+10CB0">>, <<"U+10CB1">>,
       <<"U+10CB2">>, <<"U+118A0">>, <<"U+118A1">>, <<"U+118A2">>,
       <<"U+118A3">>, <<"U+118A4">>, <<"U+118A5">>, <<"U+118A6">>,
       <<"U+118A7">>, <<"U+118A8">>, <<"U+118A9">>, <<"U+118AA">>,
       <<"U+118AB">>, <<"U+118AC">>, <<"U+118AD">>, <<"U+118AE">>,
       <<"U+118AF">>, <<"U+118B0">>, <<"U+118B1">>, <<"U+118B2">>,
       <<"U+118B3">>, <<"U+118B4">>, <<"U+118B5">>, <<"U+118B6">>,
       <<"U+118B7">>, <<"U+118B8">>, <<"U+118B9">>, <<"U+118BA">>,
       <<"U+118BB">>, <<"U+118BC">>, <<"U+118BD">>, <<"U+118BE">>,
       <<"U+118BF">>, <<"U+16E40">>, <<"U+16E41">>, <<"U+16E42">>,
       <<"U+16E43">>, <<"U+16E44">>, <<"U+16E45">>, <<"U+16E46">>,
       <<"U+16E47">>, <<"U+16E48">>, <<"U+16E49">>, <<"U+16E4A">>,
       <<"U+16E4B">>, <<"U+16E4C">>, <<"U+16E4D">>, <<"U+16E4E">>,
       <<"U+16E4F">>, <<"U+16E50">>, <<"U+16E51">>, <<"U+16E52">>,
       <<"U+16E53">>, <<"U+16E54">>, <<"U+16E55">>, <<"U+16E56">>,
       <<"U+16E57">>, <<"U+16E58">>, <<"U+16E59">>, <<"U+16E5A">>,
       <<"U+16E5B">>, <<"U+16E5C">>, <<"U+16E5D">>, <<"U+16E5E">>,
       <<"U+16E5F">>, <<"U+1E900">>, <<"U+1E901">>, <<"U+1E902">>,
       <<"U+1E903">>, <<"U+1E904">>, <<"U+1E905">>, <<"U+1E906">>,
       <<"U+1E907">>, <<"U+1E908">>, <<"U+1E909">>, <<"U+1E90A">>,
       <<"U+1E90B">>, <<"U+1E90C">>, <<"U+1E90D">>, <<"U+1E90E">>,
       <<"U+1E90F">>, <<"U+1E910">>, <<"U+1E911">>, <<"U+1E912">>,
       <<"U+1E913">>, <<"U+1E914">>, <<"U+1E915">>, <<"U+1E916">>,
       <<"U+1E917">>, <<"U+1E918">>, <<"U+1E919">>, <<"U+1E91A">>,
       <<"U+1E91B">>, <<"U+1E91C">>, <<"U+1E91D">>, <<"U+1E91E">>,
       <<"U+1E91F">>, <<"U+1E920">>, <<"U+1E921">> >>

LowerLetterSet == {LowerLetters[i] : i \in 1..Len(LowerLetters)}

\* str.upper() of one character: the text it becomes
UpperOf(c) ==
    IF c \in LowerLetterSet
    THEN UpperLetters[CHOOSE i \in 1..Len(LowerLetters) : LowerLetters[i] = c]
    ELSE <<c>>

\* float() reads the letters of "inf", "nan" and "e" in either case
LowerChar(c) ==
    IF \E i \in 1..Len(UpperCase) : UpperCase[i] = c
    THEN LowerCase[CHOOSE i \in 1..Len(UpperCase) : UpperCase[i] = c]
    ELSE c

\* s.upper(), by halves of s
RECURSIVE Upper(_)
Upper(s) ==
    IF s = << >> THEN << >>
    ELSE IF Len(s) = 1 THEN UpperOf(s[1])
    ELSE Upper(SubSeq(s, 1, Len(s) \div 2)) \o Upper(SubSeq(s, (Len(s) \div 2) + 1, Len(s)))

\* s.replace(c, '')
Remove(s, c) ==
    LET Other(x) == x # c
    IN  SelectSeq(s, Other)

RECURSIVE Concat(_)
Concat(ss) == IF ss = << >> THEN << >> ELSE Head(ss) \o Concat(Tail(ss))


(***************************************************************************)
(* float(s): blanks around the text are dropped; the text is an optional   *)
(* sign and then "inf", "infinity" or "nan" in any case, or a decimal      *)
(* literal: digits with at most one point and at least one digit, then an  *)
(* optional exponent ("e" or "E", optional sign, digits); a single "_" may *)
(* stand between two digits.  Anything else raises ValueError.             *)
(*                                                                         *)
(* The value is the binary64 number nearest to the literal, ties to the    *)
(* even significand.  It is written as repr() prints it: NaN,              *)
(* Infinity(sign), or [sign, digits, exp] for sign * digits * 10^exp,      *)
(* where the digits (first digit first, neither starting nor ending with   *)
(* 0) are those of the shortest decimal that float() reads back as the     *)
(* same number, and of these the nearest to it.  So "2.10", "2.1" and      *)
(* "2.1000000000000000001" have one value, and so have "1e-400" and "0".   *)
(* Zero has no digits; 0.0 and -0.0, which are equal, are one value.       *)
(***************************************************************************)
ValueError == [error |-> "ValueError"]

\* None, as a resolution
Null == [null |-> TRUE]

\* None, where an identifier or a reference to a row is expected
NoId == 0

Zero == [sign |-> 1, digits |-> << >>, exp |-> 0]

Infinity(sign) == [inf |-> sign]

NaN == [nan |-> TRUE]

\* the decimal digits of every script, ten of each script from its zero to
\* its nine; float() reads them all
DecimalDigits ==
    << "0", "1", "2", "3", "4", "5", "6", "7", "8", "9", "U+0660", "U+0661",
       "U+0662", "U+0663", "U+0664", "U+0665", "U+0666", "U+0667", "U+0668",
       "U+0669", "۰", "۱", "۲", "۳", "۴", "۵", "۶", "۷", "۸", "۹", "߀", "߁",
       "߂", "߃", "߄", "߅", "߆", "߇", "߈", "߉", "U+0966", "U+0967", "U+0968",
       "U+0969", "U+096A", "U+096B", "U+096C", "U+096D", "U+096E", "U+096F",
       "০", "১", "২", "৩", "৪", "৫", "৬", "৭", "৮", "৯", "U+0A66", "U+0A67",
       "U+0A68", "U+0A69", "U+0A6A", "U+0A6B", "U+0A6C", "U+0A6D", "U+0A6E",
       "U+0A6F", "૦", "૧", "૨", "૩", "૪", "૫", "૬", "૭", "૮", "૯", "U+0B66",
       "U+0B67", "U+0B68", "U+0B69", "U+0B6A", "U+0B6B", "U+0B6C", "U+0B6D",
       "U+0B6E", "U+0B6F", "௦", "௧", "௨", "௩", "௪", "௫", "௬", "௭", "௮", "௯",
       "U+0C66", "U+0C67", "U+0C68", "U+0C69", "U+0C6A", "U+0C6B", "U+0C6C",
       "U+0C6D", "U+0C6E", "U+0C6F", "೦", "೧", "೨", "೩", "೪", "೫", "೬", "೭",
       "೮", "೯", "U+0D66", "U+0D67", "U+0D68", "U+0D69", "U+0D6A", "U+0D6B",
       "U+0D6C", "U+0D6D", "U+0D6E", "U+0D6F", "෦", "෧", "෨", "෩", "෪", "෫",
       "෬", "෭", "෮", "෯", "U+0E50", "U+0E51", "U+0E52", "U+0E53", "U+0E54",
       "U+0E55", "U+0E56", "U+0E57", "U+0E58", "U+0E59", "໐", "໑", "໒", "໓",
       "໔", "໕", "໖", "໗", "໘", "໙", "U+0F20", "U+0F21", "U+0F22", "U+0F23",
       "U+0F24", "U+0F25", "U+0F26", "U+0F27", "U+0F28", "U+0F29", "U+1040",
       "U+1041", "U+1042", "U+1043", "U+1044", "U+1045", "U+1046", "U+1047",
       "U+1048", "U+1049", "႐", "႑", "႒", "႓", "႔", "႕", "႖", "႗", "႘", "႙",
       "០", "១", "២", "៣", "៤", "៥", "៦", "៧", "៨", "៩", "U+1810", "U+1811",
       "U+1812", "U+1813", "U+1814", "U+1815", "U+1816", "U+1817", "U+1818",
       "U+1819", "U+1946", "U+1947", "U+1948", "U+1949", "U+194A", "U+194B",
       "U+194C", "U+194D", "U+194E", "U+194F", "᧐", "᧑", "᧒", "᧓", "᧔", "᧕",
       "᧖", "᧗", "᧘", "᧙", "᪀", "᪁", "᪂", "᪃", "᪄", "᪅", "᪆", "᪇", "᪈", "᪉",
       "᪐", "᪑", "᪒", "᪓", "᪔", "᪕", "᪖", "᪗", "᪘", "᪙", "U+1B50", "U+1B51",
       "U+1B52", "U+1B53", "U+1B54", "U+1B55", "U+1B56", "U+1B57", "U+1B58",
       "U+1B59", "᮰", "᮱", "᮲", "᮳", "᮴", "᮵", "᮶", "᮷", "᮸", "᮹", "U+1C40",
       "U+1C41", "U+1C42", "U+1C43", "U+1C44", "U+1C45", "U+1C46", "U+1C47",
       "U+1C48", "U+1C49", "U+1C50", "U+1C51", "U+1C52", "U+1C53", "U+1C54",
       "U+1C55", "U+1C56", "U+1C57", "U+1C58", "U+1C59", "U+A620", "U+A621",
       "U+A622", "U+A623", "U+A624", "U+A625", "U+A626", "U+A627", "U+A628",
       "U+A629", "꣐", "꣑", "꣒", "꣓", "꣔", "꣕", "꣖", "꣗", "꣘", "꣙", "U+A900",
       "U+A901", "U+A902", "U+A903", "U+A904", "U+A905", "U+A906", "U+A907",
       "U+A908", "U+A909", "꧐", "꧑", "꧒", "꧓", "꧔", "꧕", "꧖", "꧗", "꧘", "꧙",
       "꧰", "꧱", "꧲", "꧳", "꧴", "꧵", "꧶", "꧷", "꧸", "꧹", "U+AA50", "U+AA51",
       "U+AA52", "U+AA53", "U+AA54", "U+AA55", "U+AA56", "U+AA57", "U+AA58",
       "U+AA59", "꯰", "꯱", "꯲", "꯳", "꯴", "꯵", "꯶", "꯷", "꯸", "꯹", "U+FF10",
       "U+FF11", "U+FF12", "U+FF13", "U+FF14", "U+FF15", "U+FF16", "U+FF17",
       "U+FF18", "U+FF19", "U+104A0", "U+104A1", "U+104A2", "U+104A3",
       "U+104A4", "U+104A5", "U+104A6", "U+104A7", "U+104A8", "U+104A9",
       "U+10D30", "U+10D31", "U+10D32", "U+10D33", "U+10D34", "U+10D35",
       "U+10D36", "U+10D37", "U+10D38", "U+10D39", "U+11066", "U+11067",
       "U+11068", "U+11069", "U+1106A", "U+1106B", "U+1106C", "U+1106D",
       "U+1106E", "U+1106F", "U+110F0", "U+110F1", "U+110F2", "U+110F3",
       "U+110F4", "U+110F5", "U+110F6", "U+110F7", "U+110F8", "U+110F9",
       "U+11136", "U+11137", "U+11138", "U+11139", "U+1113A", "U+1113B",
       "U+1113C", "U+1113D", "U+1113E", "U+1113F", "U+111D0", "U+111D1",
       "U+111D2", "U+111D3", "U+111D4", "U+111D5", "U+111D6", "U+111D7",
       "U+111D8", "U+111D9", "U+112F0", "U+112F1", "U+112F2", "U+112F3",
       "U+112F4", "U+112F5", "U+112F6", "U+112F7", "U+112F8", "U+112F9",
       "U+11450", "U+11451", "U+11452", "U+11453", "U+11454", "U+11455",
       "U+11456", "U+11457", "U+11458", "U+11459", "U+114D0", "U+114D1",
       "U+114D2", "U+114D3", "U+114D4", "U+114D5", "U+114D6", "U+114D7",
       "U+114D8", "U+114D9", "U+11650", "U+11651", "U+11652", "U+11653",
       "U+11654", "U+11655", "U+11656", "U+11657", "U+11658", "U+11659",
       "U+116C0", "U+116C1", "U+116C2", "U+116C3", "U+116C4", "U+116C5",
       "U+116C6", "U+116C7", "U+116C8", "U+116C9", "U+11730", "U+11731",
       "U+11732", "U+11733", "U+11734", "U+11735", "U+11736", "U+11737",
       "U+11738", "U+11739", "U+118E0", "U+118E1", "U+118E2", "U+118E3",
       "U+118E4", "U+118E5", "U+118E6", "U+118E7", "U+118E8", "U+118E9",
       "U+11950", "U+11951", "U+11952", "U+11953", "U+11954", "U+11955",
       "U+11956", "U+11957", "U+11958", "U+11959", "U+11C50", "U+11C51",
       "U+11C52", "U+11C53", "U+11C54", "U+11C55", "U+11C56", "U+11C57",
       "U+11C58", "U+11C59", "U+11D50", "U+11D51", "U+11D52", "U+11D53",
       "U+11D54", "U+11D55", "U+11D56", "U+11D57", "U+11D58", "U+11D59",
       "U+11DA0", "U+11DA1", "U+11DA2", "U+11DA3", "U+11DA4", "U+11DA5",
       "U+11DA6", "U+11DA7", "U+11DA8", "U+11DA9", "U+16A60", "U+16A61",
       "U+16A62", "U+16A63", "U+16A64", "U+16A65", "U+16A66", "U+16A67",
       "U+16A68", "U+16A69", "U+16AC0", "U+16AC1", "U+16AC2", "U+16AC3",
       "U+16AC4", "U+16AC5", "U+16AC6", "U+16AC7", "U+16AC8", "U+16AC9",
       "U+16B50", "U+16B51", "U+16B52", "U+16B53", "U+16B54", "U+16B55",
       "U+16B56", "U+16B57", "U+16B58", "U+16B59", "U+1D7CE", "U+1D7CF",
       "U+1D7D0", "U+1D7D1", "U+1D7D2", "U+1D7D3", "U+1D7D4", "U+1D7D5",
       "U+1D7D6", "U+1D7D7", "U+1D7D8", "U+1D7D9", "U+1D7DA", "U+1D7DB",
       "U+1D7DC", "U+1D7DD", "U+1D7DE", "U+1D7DF", "U+1D7E0", "U+1D7E1",
       "U+1D7E2", "U+1D7E3", "U+1D7E4", "U+1D7E5", "U+1D7E6", "U+1D7E7",
       "U+1D7E8", "U+1D7E9", "U+1D7EA", "U+1D7EB", "U+1D7EC", "U+1D7ED",
       "U+1D7EE", "U+1D7EF", "U+1D7F0", "U+1D7F1", "U+1D7F2", "U+1D7F3",
       "U+1D7F4", "U+1D7F5", "U+1D7F6", "U+1D7F7", "U+1D7F8", "U+1D7F9",
       "U+1D7FA", "U+1D7FB", "U+1D7FC", "U+1D7FD", "U+1D7FE", "U+1D7FF",
       "U+1E140", "U+1E141", "U+1E142", "U+1E143", "U+1E144", "U+1E145",
       "U+1E146", "U+1E147", "U+1E148", "U+1E149", "U+1E2F0", "U+1E2F1",
       "U+1E2F2", "U+1E2F3", "U+1E2F4", "U+1E2F5", "U+1E2F6", "U+1E2F7",
       "U+1E2F8", "U+1E2F9", "U+1E950", "U+1E951", "U+1E952", "U+1E953",
       "U+1E954", "U+1E955", "U+1E956", "U+1E957", "U+1E958", "U+1E959",
       "U+1FBF0", "U+1FBF1", "U+1FBF2", "U+1FBF3", "U+1FBF4", "U+1FBF5",
       "U+1FBF6", "U+1FBF7", "U+1FBF8", "U+1FBF9" >>

DecimalDigitSet == {DecimalDigits[i] : i \in 1..Len(DecimalDigits)}

IsDigit(c) == c \in DecimalDigitSet

DigitVal(c) == ((CHOOSE i \in 1..Len(DecimalDigits) : DecimalDigits[i] = c) - 1) % 10

\* the values of the digits of a text of digits
DigitVals(s) == SubSeq([i \in 1..Len(s) |-> DigitVal(s[i])], 1, Len(s))

\* the number with the decimal digits ds, first digit first
RECURSIVE DigitsVal(_)
DigitsVal(ds) ==
    IF ds = << >> THEN 0
    ELSE 10 * DigitsVal(SubSeq(ds, 1, Len(ds) - 1)) + ds[Len(ds)]

(***************************************************************************)
(* Natural numbers of any size, as the conversion needs them: the sequence *)
(* of the digits of base 10^4, units first, without high zeros; << >> is   *)
(* 0.                                                                      *)
(***************************************************************************)
Base == 10000

Dig(x, i) == IF i >= 1 /\ i <= Len(x) THEN x[i] ELSE 0

\* without the high zeros
Norm(x) ==
    LET Zeros(t) == Cardinality({i \in 1..Len(t) : \A j \in i..Len(t) : t[j] = 0})
        Cut(t)   == SubSeq(t, 1, Len(t) - Zeros(t))
    IN  Cut(SubSeq(x, 1, Len(x)))

\* a carry reaches digit i from the nearest digit below whose sum is not
\* Base - 1, when that sum is Base or more
Add(x, y) ==
    LET Sum(i) == Dig(x, i) + Dig(y, i)
        CarryIn(i) ==
            /\ i > 1
            /\ \/ Sum(i - 1) >= Base
               \/ /\ Sum(i - 1) = Base - 1
                  /\ \E j \in 1..(i - 2) :
                        Sum(j) >= Base /\ \A k \in (j + 1)..(i - 2) : Sum(k) = Base - 1
    IN  Norm([i \in 1..((IF Len(x) > Len(y) THEN Len(x) ELSE Len(y)) + 1) |->
                (Dig(x, i) + Dig(y, i) + (IF CarryIn(i) THEN 1 ELSE 0)) % Base])

\* x - y, for x >= y: digit i lends to the nearest digit below where the two
\* numbers differ, when x has the smaller digit there
Sub(x, y) ==
    LET BorrowIn(i) ==
            /\ i > 1
            /\ \/ x[i - 1] < Dig(y, i - 1)
               \/ /\ x[i - 1] = Dig(y, i - 1)
                  /\ \E j \in 1..(i - 2) :
                        x[j] < Dig(y, j) /\ \A k \in (j + 1)..(i - 2) : x[k] = Dig(y, k)
    IN  Norm([i \in 1..Len(x) |->
                (Base + x[i] - Dig(y, i) - (IF BorrowIn(i) THEN 1 ELSE 0)) % Base])

Less(x, y) ==
    \/ Len(x) < Len(y)
    \/ /\ Len(x) = Len(y)
       /\ \E i \in 1..Len(x) : x[i] < y[i] /\ \A j \in (i + 1)..Len(x) : x[j] = y[j]

\* 2 * x: a digit carries exactly when it is half of Base or more
Dbl(x) ==
    Norm([i \in 1..(Len(x) + 1) |->
            (2 * Dig(x, i) + (IF Dig(x, i - 1) >= Base \div 2 THEN 1 ELSE 0)) % Base])

\* x \div 2
Half(x) ==
    Norm([i \in 1..Len(x) |-> (x[i] + Base * (Dig(x, i + 1) % 2)) \div 2])

\* k * x, for k < Base
Times(x, k) ==
    Add(Norm([i \in 1..Len(x) |-> (x[i] * k) % Base]),
        Norm(<<0>> \o [i \in 1..Len(x) |-> (x[i] * k) \div Base]))

\* x * 2^n, by halves of n
RECURSIVE Shift2(_, _)
Shift2(x, n) ==
    IF n <= 0 \/ x = << >> THEN x
    ELSE IF n <= 13
    THEN Times(x, <<2, 4, 8, 16, 32, 64, 128, 256, 512, 1024, 2048, 4096, 8192>>[n])
    ELSE LET y == Shift2(x, n \div 2)
         IN  IF y = << >> THEN y ELSE Shift2(y, n - (n \div 2))

\* x * 10^n
Shift10(x, n) ==
    IF n <= 0 \/ x = << >> THEN x
    ELSE [i \in 1..(n \div 4) |-> 0] \o Times(x, <<1, 10, 100, 1000>>[(n % 4) + 1])

\* the number of decimal digits of x
DecLen(x) ==
    IF x = << >> THEN 0
    ELSE 4 * (Len(x) - 1) + (IF x[Len(x)] >= 1000 THEN 4 ELSE IF x[Len(x)] >= 100 THEN 3
                             ELSE IF x[Len(x)] >= 10 THEN 2 ELSE 1)

(***************************************************************************)
(* The binary64 number nearest to A / B, ties to the even significand: its *)
(* significand m < 2^53 and its exponent e >= MinExp, for m * 2^e.  The    *)
(* significand is 0 when A / B is nearer to 0 than to the least number;    *)
(* the exponent is above MaxExp when A / B is beyond the greatest.         *)
(***************************************************************************)
MinExp == -1074

MaxExp == 971

Binary(A, B) ==
    LET \* a whole number that is at most the binary logarithm of 10^n
        Log2(n) == IF n >= 0 THEN (n * 3321) \div 1000
                   ELSE 0 - (((0 - n) * 3322 + 999) \div 1000)
        \* an exponent that is not above the one of A / B
        Least(n) == IF Log2(n) - 52 < MinExp THEN MinExp ELSE Log2(n) - 52
        Pos(n) == IF n > 0 THEN n ELSE 0
        \* the exponent of A / B is the estimate or one of the nine above: the
        \* least e with A / B < 2^(53 + e)
        Above(R, T) == Cardinality({j \in 0..8 : ~Less(R, Shift2(T, j))})
        ScaleUp(R, T, e) ==
            [m |-> << >>, R |-> R, T |-> Shift2(T, Above(R, T)), e |-> e + Above(R, T)]
        Scale(e) == ScaleUp(Shift2(A, Pos(0 - e)), Shift2(B, 53 + Pos(e)), e)
        \* one more bit of the quotient m of the division by T, with
        \* remainder R: h is half of T
        Bit(q, h) ==
            IF Less(q.R, h)
            THEN [q EXCEPT !.m = Dbl(@), !.T = h]
            ELSE [q EXCEPT !.m = Add(Dbl(@), <<1>>), !.R = Sub(@, h), !.T = h]
        \* n more bits, by halves of n; they are zeros when nothing remains
        RECURSIVE Bits(_, _)
        Bits(q, n) ==
            IF q.R = << >> THEN [q EXCEPT !.m = Shift2(@, n)]
            ELSE IF n = 1 THEN Bit(q, Half(q.T))
            ELSE LET r == Bits(q, n \div 2)
                 IN  IF r.T = << >> THEN r ELSE Bits(r, n - (n \div 2))
        \* round half to even
        RoundUp(q) == Less(q.T, Dbl(q.R)) \/ (Dbl(q.R) = q.T /\ q.m # << >> /\ q.m[1] % 2 = 1)
        Rounded(q) == [m |-> IF RoundUp(q) THEN Add(q.m, <<1>>) ELSE q.m, e |-> q.e]
        Carry(b) == IF b.m = Shift2(<<1>>, 53) THEN [m |-> Shift2(<<1>>, 52), e |-> b.e + 1] ELSE b
    IN  Carry(Rounded(Bits(Scale(Least(DecLen(A) - DecLen(B) - 1)), 53)))

(***************************************************************************)
(* repr(): the shortest decimal that float() reads back as m * 2^e, and of *)
(* these the nearest: its digits and the power of ten k, for               *)
(* 0.digits * 10^k.  The number is R / S, the distance to the middle       *)
(* between it and the next binary64 number above is Mp / S, to the one     *)
(* below Mm / S; a middle reads back as the number when m is even.         *)
(***************************************************************************)
MaxShortest == 17

Shortest(b) ==
    LET \* the numbers below a power of two lie twice as close
        Edge == IF b.m = Shift2(<<1>>, 52) /\ b.e > MinExp THEN 1 ELSE 0
        Pos(n) == IF n > 0 THEN n ELSE 0
        \* a whole number that is at most the decimal logarithm of 2^n
        Log10(n) == IF n >= 0 THEN (n * 30102) \div 100000
                    ELSE 0 - (((0 - n) * 30103 + 99999) \div 100000)
        Interval(k) ==
            [ R      |-> Shift10(Shift2(b.m, Pos(b.e) + 1 + Edge), 0 - k),
              S      |-> Shift10(Shift2(<<1>>, Pos(0 - b.e) + 1 + Edge), k),
              Mp     |-> Shift10(Shift2(<<1>>, Pos(b.e) + Edge), 0 - k),
              Mm     |-> Shift10(Shift2(<<1>>, Pos(b.e)), 0 - k),
              k      |-> k,
              digits |-> << >>,
              done   |-> FALSE ]
        Even == b.m[1] % 2 = 0
        \* the number and one more unit of the last digit reach the upper middle
        High(g) ==
            IF Even THEN ~Less(Add(g.R, g.Mp), g.S) ELSE Less(g.S, Add(g.R, g.Mp))
        \* the number is within the lower middle of its digits so far
        Low(g) == IF Even THEN ~Less(g.Mm, g.R) ELSE Less(g.R, g.Mm)
        \* the least power of ten above the upper middle is the estimate or
        \* one of the three above
        Raised(g, n) == [g EXCEPT !.S = Shift10(@, n), !.k = @ + n]
        FixUp(g) == Raised(g, Cardinality({n \in 0..2 : High(Raised(g, n))}))
        \* the next digit d = 10 * R \div S, and the remainder
        Quotient(R, S) == Cardinality({d \in 1..9 : ~Less(R, Times(S, d))})
        Divided(g, d) ==
            [g EXCEPT !.R = Sub(Shift10(@, 1), Times(g.S, d)), !.Mp = Shift10(@, 1),
                      !.Mm = Shift10(@, 1), !.digits = Append(@, d)]
        LastDigit(g, d) ==
            IF Low(g) /\ ~High(g) THEN d
            ELSE IF High(g) /\ ~Low(g) THEN d + 1
            ELSE IF Less(Dbl(g.R), g.S) THEN d
            ELSE IF Less(g.S, Dbl(g.R)) THEN d + 1
            ELSE d + (d % 2)
        Last(g) ==
            IF Low(g) \/ High(g)
            THEN [g EXCEPT !.digits[Len(g.digits)] = LastDigit(g, @), !.done = TRUE]
            ELSE g
        Digit(g) == Last(Divided(g, Quotient(Shift10(g.R, 1), g.S)))
        \* up to n more digits, by halves of n
        RECURSIVE Generate(_, _)
        Generate(g, n) ==
            IF g.done THEN g
            ELSE IF n = 1 THEN Digit(g)
            ELSE LET h == Generate(g, n \div 2)
                 IN  IF h.done THEN h ELSE Generate(h, n - (n \div 2))
        Result(g) == [digits |-> g.digits, k |-> g.k]
    IN  Result(Generate(FixUp(Interval(DecLen(b.m) - 1 + Log10(b.e))), MaxShortest))

\* binary64 holds 15 digits of every number from 10^-307 up to 10^308
MaxDigits == 15

MaxPower == 307

\* a number below 10^-324 is less than half of the least binary64 number
MinPower == -324

\* the number with the decimal digits t, first digit first, of any size
FromDigits(t) ==
    LET At(i) == IF i >= 1 /\ i <= Len(t) THEN t[Len(t) + 1 - i] ELSE 0
    IN  Norm([i \in 1..((Len(t) + 3) \div 4) |->
                 At(4 * i - 3) + 10 * At(4 * i - 2) + 100 * At(4 * i - 1) + 1000 * At(4 * i)])

\* the float of sign * ds * 10^p, for decimal digits ds, first digit first
Float(sign, ds, p) ==
    LET Leading(t)  == Cardinality({i \in 1..Len(t) : \A j \in 1..i : t[j] = 0})
        Trailing(t) == Cardinality({i \in 1..Len(t) : \A j \in i..Len(t) : t[j] = 0})
        OfDecimal(r) == [sign |-> sign, digits |-> r.digits, exp |-> r.k - Len(r.digits)]
        OfBinary(b) ==
            IF b.m = << >> THEN Zero
            ELSE IF b.e > MaxExp THEN Infinity(sign)
            ELSE OfDecimal(Shortest(b))
        \* for digits t that neither start nor end with 0
        Round(t, q) ==
            IF Len(t) + q - 1 > MaxPower + 1 THEN Infinity(sign)
            ELSE IF Len(t) + q - 1 < MinPower THEN Zero
            ELSE IF /\ Len(t) <= MaxDigits
                    /\ Len(t) + q - 1 >= 0 - MaxPower
                    /\ Len(t) + q - 1 <= MaxPower
            THEN [sign |-> sign, digits |-> t, exp |-> q]
            ELSE OfBinary(Binary(Shift10(FromDigits(t), q), Shift10(<<1>>, 0 - q)))
    IN  IF Leading(ds) = Len(ds) THEN Zero
        ELSE Round(SubSeq(ds, Leading(ds) + 1, Len(ds) - Trailing(ds)), p + Trailing(ds))

\* the ASCII letters of s in lower case
Lower(s) == [i \in 1..Len(s) |-> LowerChar(s[i])]

\* digits, with single underscores between digits
IsDigits(s) ==
    /\ s # << >>
    /\ IsDigit(s[1])
    /\ IsDigit(s[Len(s)])
    /\ \A i \in 1..Len(s) :
          \/ IsDigit(s[i])
          \/ s[i] = "_" /\ IsDigit(s[i - 1]) /\ IsDigit(s[i + 1])

Signed(s) == s # << >> /\ s[1] \in {"+", "-"}

SignOf(s) == IF s # << >> /\ s[1] = "-" THEN 0 - 1 ELSE 1

Unsigned(s) == IF Signed(s) THEN Tail(s) ELSE s

\* float() parses with _Py_dg_strtod, which refuses a literal of more digits
\* than MAX_DIGITS and takes every power beyond MAX_ABS_EXP as MAX_ABS_EXP
MAX_DIGITS == 1000000000

MAX_ABS_EXP == 1100000000

\* the power of ten that the text after "e" names: its digits after the
\* leading zeros, and MAX_ABS_EXP when there are more than 9 of them
Exponent(power) ==
    LET Leading(t) == Cardinality({i \in 1..Len(t) : \A j \in 1..i : t[j] = 0})
        Abs(t)     == IF Len(t) - Leading(t) > 9 THEN MAX_ABS_EXP
                      ELSE DigitsVal(SubSeq(t, Leading(t) + 1, Len(t)))
    IN  SignOf(power) * Abs(DigitVals(Remove(Unsigned(power), "_")))

\* the number with these digits before and after the point and this power
\* of ten (the text after "e").  ndigits counts the digits after the leading
\* zeros (those after the point too, when no other digit stands before it),
\* fraclen every digit after the point.
Decimal(sign, int, frac, power) ==
    LET Leading(t) == Cardinality({i \in 1..Len(t) : \A j \in 1..i : t[j] = 0})
        before     == DigitVals(Remove(int, "_"))
        after      == DigitVals(Remove(frac, "_"))
        ndigits    == IF Leading(before) < Len(before)
                      THEN Len(before) - Leading(before) + Len(after)
                      ELSE Len(after) - Leading(after)
        fraclen    == Len(after)
    IN  IF \/ ~(int = << >> \/ IsDigits(int))
           \/ ~(frac = << >> \/ IsDigits(frac))
           \/ int = << >> /\ frac = << >>
           \/ ~IsDigits(Unsigned(power))
        THEN ValueError
        ELSE IF ndigits > MAX_DIGITS \/ fraclen > MAX_DIGITS THEN ValueError
        ELSE Float(sign, before \o after, Exponent(power) - fraclen)

\* the text before the point of a literal, and the text after it
IntPart(lit) ==
    IF Find(lit, <<".">>) = 0 THEN lit ELSE Slice(lit, 1, Find(lit, <<".">>) - 1)

FracPart(lit) ==
    IF Find(lit, <<".">>) = 0 THEN << >> ELSE Slice(lit, Find(lit, <<".">>) + 1, Len(lit))

\* a literal without exponent has the power of ten 0
Literal(sign, lit, power) == Decimal(sign, IntPart(lit), FracPart(lit), power)

Unsigned10(sign, body) ==
    IF body \in {<<"i", "n", "f">>, <<"i", "n", "f", "i", "n", "i", "t", "y">>}
    THEN Infinity(sign)
    ELSE IF body = <<"n", "a", "n">> THEN NaN
    ELSE IF Find(body, <<"e">>) = 0 THEN Literal(sign, body, <<"0">>)
    ELSE Literal(sign, Slice(body, 1, Find(body, <<"e">>) - 1),
                 Slice(body, Find(body, <<"e">>) + 1, Len(body)))

Stripped(t) == Unsigned10(SignOf(t), Lower(Unsigned(t)))

ParseFloat(s) == Stripped(FloatStrip(s))

(***************************************************************************)
(* header_re.match(line): the pattern is ">" , group 1 of characters other *)
(* than "_", "_", a greedy group 2 of any characters, "mol:", group 3 of   *)
(* non-blanks, " length:", group 4 of non-blanks.  Group 1 ends at the     *)
(* first "_"; group 2 ends at the last "mol:" whose following run of       *)
(* non-blanks is directly followed by " length:".  The result is NoMatch   *)
(* or the pair of group 1 and group 2.                                     *)
(***************************************************************************)
NoMatch == << >>

MolAt(s, p) ==
    LET rest   == Slice(s, p + 4, Len(s))
        blanks == {i \in 1..Len(rest) : IsSpace(rest[i])}
        q      == CHOOSE i \in blanks : \A j \in blanks : i <= j
    IN  /\ Slice(s, p, p + 3) = <<"m", "o", "l", ":">>
        /\ blanks # {}
        /\ StartsWith(Slice(rest, q, Len(rest)),
                      <<" ", "l", "e", "n", "g", "t", "h", ":">>)

HeaderMatch(s) ==
    LET u    == Find(s, <<"_">>)
        mols == {p \in (u + 1)..Len(s) :
                    MolAt(s, p) /\ \A k \in (u + 1)..(p - 1) : s[k] # "\n"}
        last == CHOOSE p \in mols : \A r \in mols : r <= p
    IN  IF s = << >> \/ s[1] # ">" \/ u = 0 \/ mols = {} THEN NoMatch
        ELSE <<Slice(s, 2, u - 1), Slice(s, u + 1, last - 1)>>

(***************************************************************************)
(* The input files.  Each file is read line by line; the lines a run can   *)
(* meet are drawn from the sets below, and a run reads at most MaxLines    *)
(* lines in all.                                                           *)
(***************************************************************************)
MaxLines == 4

\* a loader is run at most MaxRuns times on the same files
MaxRuns == 2

NL == <<"\n">>

SepAuthor == <<" ", ";", " ">>

SepSource == <<";", " ">>

Tab == <<"\t">>

K1 == <<"1", "A", "B", "C">>

K1low == <<"1", "a", "b", "c">>

K2 == <<"2", "X", "Y", "Z">>

K2low == <<"2", "x", "y", "z">>

K5 == <<"1", "2", "A", "B", "5">>

\* author.idx: "CODE ; Author Name"
AuthorLines ==
    { K1 \o SepAuthor \o <<"X">> \o NL,
      K2 \o SepAuthor \o <<"X">> \o NL,
      K1 \o SepAuthor \o <<"X">> \o SepAuthor \o <<"Y">> \o NL,
      SepAuthor \o <<"X">> \o NL,
      K1 \o NL }

\* source.idx: "CODE source[; source...]"
SourceLines ==
    { K1 \o <<" ", "A">> \o SepSource \o <<"B">> \o NL,
      K2 \o <<" ", "B">> \o NL,
      K1 \o <<" ", "A">> \o SepSource \o <<"A">> \o NL,
      <<" ">> \o K1 \o NL,
      K1 \o NL }

EntryText(idCode, compound, resol, expTypeName) ==
    idCode \o Tab \o <<"H">> \o Tab \o <<"D">> \o Tab \o compound \o Tab
           \o <<"S">> \o Tab \o <<"A">> \o Tab \o resol \o Tab \o expTypeName \o NL

\* entries.idx: eight tab-separated fields
EntryLines ==
    { EntryText(K1, <<"C">>, <<"2", ".", "1", "0", ",", "1", ".", "8", "0">>, <<"X">>),
      EntryText(K2, <<"C">>, <<"N", "O", "T">>, <<"X">>),
      EntryText(K1low, <<"C">>, <<"a", "b", "c">>, <<"N">>),
      EntryText(K5, <<"C">>, <<"1", ".", "5">>, <<"Z">>),
      EntryText(<<"1", "a", "ß", "c">>, <<"C">>, <<"1", ".", "5">>, <<"X">>),
      K2 \o Tab \o <<"H">> \o Tab \o <<"D">> \o Tab \o <<"C">> \o Tab
         \o <<"S">> \o Tab \o <<"A">> \o Tab \o <<"1", ".", "5">> \o NL }

\* pdb_entry_type.txt: "code compound-type experimental-class"
TypeLines ==
    { K1low \o <<" ", "p", " ", "d">> \o NL,
      K2low \o <<" ", "q", " ", "n">> \o NL,
      K1low \o <<" ", "p">> \o NL }

HeaderText(idCode, chain) ==
    <<">">> \o idCode \o <<"_">> \o chain
            \o <<" ", "m", "o", "l", ":", "p", " ", "l", "e", "n", "g", "t", "h", ":", "1">> \o NL

\* pdb_seqres.txt: headers and sequence bodies
SeqLines ==
    { HeaderText(K1low, <<"A">>),
      HeaderText(K1low, <<"B">>),
      HeaderText(<< >>, <<"A">>),
      <<">", "j", "u", "n", "k">> \o NL,
      <<"M", "K">> \o NL,
      <<"L", "T">> \o NL }

(***************************************************************************)
(* Python dicts keep the order of insertion: a dict is a sequence of       *)
(* <<key, value>> pairs with pairwise distinct keys.                       *)
(***************************************************************************)
Has(d, k) == \E i \in 1..Len(d) : d[i][1] = k

Get(d, k) == d[CHOOSE i \in 1..Len(d) : d[i][1] = k][2]

Put(d, k, v) ==
    IF Has(d, k) THEN [i \in 1..Len(d) |-> IF d[i][1] = k THEN <<k, v>> ELSE d[i]]
    ELSE Append(d, <<k, v>>)

(***************************************************************************)
(* The store.  A table or collection is the sequence of its rows in the    *)
(* order they were written; entries are keyed by their code.  An           *)
(* association is a row of author_has_entry or entry_has_source, whether   *)
(* the loader keeps it in a join table or in a list embedded in the entry. *)
(***************************************************************************)
\* the tables of the interned kinds
Kinds == {"authors", "sources", "expTypes", "expClasses", "compTypes"}

\* auto is the AUTO_INCREMENT counter of each table of loadDB.py; refuses is
\* the set of <<kind, key>> of the records the sink does not accept
EmptyStore ==
    [ authors          |-> << >>,
      sources          |-> << >>,
      expTypes         |-> << >>,
      expClasses       |-> << >>,
      compTypes        |-> << >>,
      entries          |-> << >>,
      sequences        |-> << >>,
      author_has_entry |-> << >>,
      entry_has_source |-> << >>,
      auto             |-> [k \in Kinds |-> 1],
      refuses          |-> {} ]

Row(id, name) == [id |-> id, name |-> name, idCodes |-> << >>, ref |-> NoId]

\* the value AUTO_INCREMENT gives the next row of a table
NextId(d, kind) == d.auto[kind]

\* session.add() and session.flush() of a new row of an interned kind
Insert(d, kind, name) ==
    [d EXCEPT ![kind] = Append(@, Row(d.auto[kind], name)), !.auto[kind] = @ + 1]

\* the sink raises on the write of the record with this key
Refused(d, kind, key) == <<kind, key>> \in d.refuses

HasEntry(d, idCode) == idCode \in DOMAIN d.entries

Member(x, list) == \E i \in 1..Len(list) : list[i] = x

Distinct(list) == \A i, j \in 1..Len(list) : list[i] = list[j] => i = j

(***************************************************************************)
(* Clean: the statements of the section in the order of the script, each   *)
(* with the tables it empties.  loadDB_mdb_plain.py keeps the Sequences    *)
(* and the association lists of an Entry inside the Entry.                 *)
(***************************************************************************)
Embedded == {"entries", "sequences", "author_has_entry", "entry_has_source"}

CleanOrder(v) ==
    IF v = "sql"
    THEN << {"author_has_entry"}, {"entry_has_source"}, {"sequences"}, {"entries"},
            {"sources"}, {"authors"}, {"expTypes"}, {"compTypes"}, {"expClasses"} >>
    ELSE << Embedded, {"authors"}, {"expTypes"}, {"expClasses"}, {"compTypes"},
            {"sources"} >>

\* DELETE FROM a table, drop() of a collection: the tables of T are emptied
Delete(d, T) == [k \in DOMAIN d |-> IF k \in T THEN EmptyStore[k] ELSE d[k]]

\* ALTER TABLE ... AUTO_INCREMENT=1 for each of the five tables with a
\* surrogate id, inside try ... except Exception: pass.  failed is the set of
\* the tables whose statement raises: the script passes over it and the
\* counter of the table stays where the deleted rows left it.
ResetIds(v, d, failed) ==
    IF v = "sql"
    THEN [d EXCEPT !.auto = [k \in Kinds |-> IF k \in failed THEN d.auto[k] ELSE 1]]
    ELSE d

(***************************************************************************)
(* The variables of the scripts (the names are those of the code), as they *)
(* are before the first phase.                                             *)
(***************************************************************************)
InitMem ==
    [ AUTHORS              |-> << >>,
      author_entries       |-> << >>,
      author_entry_seen    |-> {},
      SOURCES              |-> << >>,
      source_entries       |-> << >>,
      ExpTypes             |-> << >>,
      expTypesbyCode       |-> << >>,
      expClasses           |-> << >>,
      compTypes            |-> << >>,
      exp_classes          |-> {},
      comp_types           |-> {},
      IDCODES_WITH_AUTHORS |-> << >>,
      IDCODES_WITH_SOURCES |-> << >>,
      entries_created      |-> 0,
      sequences_added      |-> 0,
      emitted              |-> << >>,
      seq                  |-> << >>,
      idPdb                |-> << >>,
      chain                |-> << >>,
      header               |-> << >> ]

\* what one pass of a loop body leaves: the variables, the store, and the
\* exception that escaped it ("none" when it completed or hit continue)
Out(m, d) == [mem |-> m, db |-> d, exc |-> "none"]

Raise(m, d, e) == [mem |-> m, db |-> d, exc |-> e]

(***************************************************************************)
(* Authors: the body of the loop over author.idx.                          *)
(***************************************************************************)
\* loadDB.py has the sections "Link sources to entries" and "Link authors to
\* entries"; loadDB_mdb_plain.py sets the lists of an entry in the Authors
\* and Sources sections
HasLinkPhases(v) == v = "sql"

\* loadDB.py: intern the author, remember the pair; no handler catches what
\* the flush raises
AuthorLineLinked(m, d, raw) ==
    LET ln          == RStrip(raw)
        parts       == SplitOnce(ln, SepAuthor)
        idCode      == parts[1]
        author_name == parts[2]
        fresh       == ~Has(m.AUTHORS, author_name)
        d1          == IF fresh THEN Insert(d, "authors", author_name) ELSE d
        m1          == IF fresh THEN [m EXCEPT !.AUTHORS = Put(@, author_name, NextId(d, "authors"))]
                       ELSE m
        key         == <<author_name, idCode>>
        m2          == IF key \notin m1.author_entry_seen
                       THEN [m1 EXCEPT !.author_entries = Append(@, key),
                                       !.author_entry_seen = @ \cup {key}]
                       ELSE m1
    IN  IF ~Contains(ln, SepAuthor) THEN Out(m, d)
        ELSE IF idCode = << >> \/ author_name = << >> THEN Out(m, d)
        ELSE IF fresh /\ Refused(d, "authors", author_name)
             THEN Raise(m, d, "SQLAlchemyError")
        ELSE Out(m2, d1)

\* loadDB_mdb_plain.py: collect the two dicts
AuthorLineCollected(m, d, raw) ==
    LET ln          == RStrip(raw)
        parts       == SplitOnce(ln, SepAuthor)
        id_code     == parts[1]
        author_name == parts[2]
        names       == IF Has(m.AUTHORS, id_code) THEN Get(m.AUTHORS, id_code) ELSE << >>
        codes       == IF Has(m.IDCODES_WITH_AUTHORS, author_name)
                       THEN Get(m.IDCODES_WITH_AUTHORS, author_name) ELSE << >>
    IN  IF ~Contains(ln, SepAuthor) THEN Out(m, d)
        ELSE IF id_code = << >> \/ author_name = << >> THEN Out(m, d)
        ELSE Out([m EXCEPT !.AUTHORS = Put(@, id_code, Append(names, author_name)),
                           !.IDCODES_WITH_AUTHORS = Put(@, author_name, Append(codes, id_code))],
                 d)

\* the body of the loop with the lookup in the dedup dict left out: every
\* line meets an empty dict
AuthorLineNoLookup(v, m, d, raw) ==
    IF HasLinkPhases(v)
    THEN AuthorLineLinked([m EXCEPT !.AUTHORS = << >>], d, raw)
    ELSE AuthorLineCollected([m EXCEPT !.IDCODES_WITH_AUTHORS = << >>], d, raw)

\* the body of the loop with the name put in the dedup dict before the
\* flush: a name whose flush fails is in the dict
AuthorLineMapsFirst(v, m, d, raw) ==
    LET parts == SplitOnce(RStrip(raw), SepAuthor)
    IN  IF ~HasLinkPhases(v) THEN AuthorLineCollected(m, d, raw)
        ELSE IF /\ Len(parts) = 2 /\ parts[1] # << >> /\ parts[2] # << >>
                /\ ~Has(m.AUTHORS, parts[2]) /\ Refused(d, "authors", parts[2])
             THEN Raise([m EXCEPT !.AUTHORS = Put(@, parts[2], NextId(d, "authors"))], d,
                        "SQLAlchemyError")
        ELSE AuthorLineLinked(m, d, raw)

AuthorLine(v, m, d, raw) ==
    IF HasLinkPhases(v) THEN AuthorLineLinked(m, d, raw)
    ELSE AuthorLineCollected(m, d, raw)

\* the rows <<name, code>> for the names of one entry, in the order of the list
Pairs(names, code) == [i \in 1..Len(names) |-> <<names[i], code>>]

RECURSIVE Drop(_, _)
\* the rows of an association table without those of entry code
Drop(rows, code) ==
    IF rows = << >> THEN << >>
    ELSE IF rows[1][2] = code THEN Drop(Tail(rows), code)
    ELSE <<rows[1]>> \o Drop(Tail(rows), code)

RECURSIVE SetAuthors(_, _)
\* the loop over AUTHORS.items(): set the author list of each stored entry
SetAuthors(d, byCode) ==
    IF byCode = << >> THEN d
    ELSE LET code  == byCode[1][1]
             names == byCode[1][2]
             d1    == IF HasEntry(d, code)
                      THEN [d EXCEPT !.author_has_entry = Drop(@, code) \o Pairs(names, code)]
                      ELSE d
         IN  SetAuthors(d1, Tail(byCode))

RECURSIVE InsertNamed(_, _, _)
\* the loop over IDCODES_WITH_...items(): one document per name, a refused
\* one is reported and left out
InsertNamed(d, kind, byName) ==
    IF byName = << >> THEN d
    ELSE InsertNamed(IF Refused(d, kind, byName[1][1]) THEN d
                     ELSE [d EXCEPT ![kind] =
                              Append(@, [id |-> NoId, name |-> byName[1][1],
                                         idCodes |-> byName[1][2], ref |-> NoId])],
                     kind, Tail(byName))

\* what the two loops after the reading loop of the Authors phase write
AuthorsWritten(v, m, d) ==
    IF HasLinkPhases(v) THEN d
    ELSE InsertNamed(SetAuthors(d, m.AUTHORS), "authors", m.IDCODES_WITH_AUTHORS)

(***************************************************************************)
(* Sources: the body of the loop over source.idx.                          *)
(***************************************************************************)
RECURSIVE InternSources(_, _, _, _)
\* loadDB.py: for s in source_str.split('; ')
InternSources(m, d, idCode, names) ==
    IF names = << >> THEN Out(m, d)
    ELSE LET s     == Head(names)
             fresh == ~Has(m.SOURCES, s)
             d1    == IF fresh THEN Insert(d, "sources", s) ELSE d
             m1    == IF fresh THEN [m EXCEPT !.SOURCES = Put(@, s, NextId(d, "sources"))]
                      ELSE m
             m2    == [m1 EXCEPT !.source_entries = Append(@, <<idCode, s>>)]
         IN  IF fresh /\ Refused(d, "sources", s) THEN Raise(m, d, "SQLAlchemyError")
             ELSE InternSources(m2, d1, idCode, Tail(names))

\* loadDB.py
SourceLineLinked(m, d, raw) ==
    LET ln         == RStrip(raw)
        parts      == SplitWsOnce(ln)
        idCode     == parts[1]
        source_str == parts[2]
    IN  IF ~Contains(ln, <<" ">>) THEN Out(m, d)
        ELSE IF Len(parts) # 2 THEN Raise(m, d, "ValueError")
        ELSE IF source_str = << >> \/ Len(idCode) # 4 THEN Out(m, d)
        ELSE InternSources(m, d, idCode, Split(source_str, SepSource))

\* loadDB_mdb_plain.py: the source list is kept whole
SourceLineCollected(m, d, raw) ==
    LET ln         == RStrip(raw)
        parts      == SplitWsOnce(ln)
        source_str == parts[2]
        id_code    == Upper(parts[1])
        strs       == IF Has(m.SOURCES, id_code) THEN Get(m.SOURCES, id_code) ELSE << >>
        codes      == IF Has(m.IDCODES_WITH_SOURCES, source_str)
                      THEN Get(m.IDCODES_WITH_SOURCES, source_str) ELSE << >>
    IN  IF ~Contains(ln, <<" ">>) THEN Out(m, d)
        ELSE IF Len(parts) # 2 THEN Raise(m, d, "ValueError")
        ELSE IF source_str = << >> \/ Len(parts[1]) # 4 THEN Out(m, d)
        ELSE Out([m EXCEPT !.SOURCES = Put(@, id_code, Append(strs, source_str)),
                           !.IDCODES_WITH_SOURCES = Put(@, source_str, Append(codes, id_code))],
                 d)

\* the body of the loop with the lookup in the dedup dict left out
SourceLineNoLookup(v, m, d, raw) ==
    IF HasLinkPhases(v)
    THEN SourceLineLinked([m EXCEPT !.SOURCES = << >>], d, raw)
    ELSE SourceLineCollected([m EXCEPT !.IDCODES_WITH_SOURCES = << >>], d, raw)

SourceLine(v, m, d, raw) ==
    IF HasLinkPhases(v) THEN SourceLineLinked(m, d, raw)
    ELSE SourceLineCollected(m, d, raw)

SourcePairs(code, strs) == [i \in 1..Len(strs) |-> <<code, strs[i]>>]

RECURSIVE DropSources(_, _)
DropSources(rows, code) ==
    IF rows = << >> THEN << >>
    ELSE IF rows[1][1] = code THEN DropSources(Tail(rows), code)
    ELSE <<rows[1]>> \o DropSources(Tail(rows), code)

RECURSIVE SetSources(_, _)
\* the loop over SOURCES.items(): set the source list of each stored entry
SetSources(d, byCode) ==
    IF byCode = << >> THEN d
    ELSE LET code == byCode[1][1]
             strs == byCode[1][2]
             d1   == IF HasEntry(d, code)
                     THEN [d EXCEPT !.entry_has_source =
                                        DropSources(@, code) \o SourcePairs(code, strs)]
                     ELSE d
         IN  SetSources(d1, Tail(byCode))

\* what the two loops after the reading loop of the Sources phase write
SourcesWritten(v, m, d) ==
    IF HasLinkPhases(v) THEN d
    ELSE InsertNamed(SetSources(d, m.SOURCES), "sources", m.IDCODES_WITH_SOURCES)

(***************************************************************************)
(* Entries: the body of the loop over entries.idx.                         *)
(***************************************************************************)
CompoundMax == 255

\* if len(idCode) != 4: continue
CodeLengthOk(idCode) == Len(idCode) = 4

\* except ValueError: resol_val = the loader's "no value"
OrNone(v, val) ==
    IF val = ValueError THEN IF v = "sql" THEN Zero ELSE Null ELSE val

\* the resolution field taken whole, commas and all
ResolutionWhole(v, field) ==
    IF field # <<"N", "O", "T">> THEN OrNone(v, ParseFloat(field))
    ELSE OrNone(v, ValueError)

\* the resolution field: the text before the first comma, "NOT" and
\* unparseable text give the loader's "no value"
FirstValue(field) ==
    IF Contains(field, <<",">>) THEN Split(field, <<",">>)[1] ELSE field

Resolution(v, field) ==
    IF FirstValue(field) # <<"N", "O", "T">> THEN OrNone(v, ParseFloat(FirstValue(field)))
    ELSE OrNone(v, ValueError)

EntryDoc(header, ascDate, compound, resol_val, expType, compType) ==
    [ header        |-> header,
      accessionDate |-> ascDate,
      compound      |-> compound,
      resolution    |-> resol_val,
      expType       |-> expType,
      compType      |-> compType,
      expClasse     |-> << >> ]

\* loadDB.py: intern the experimental type, add and flush the entry; no
\* handler catches what a flush raises
EntryLineSql(m, d, raw) ==
    LET ln          == RStrip(raw)
        fields      == Split(ln, Tab)
        idCode      == fields[1]
        expTypeName == fields[8]
        compound    == Slice(fields[4], 1, CompoundMax)
        fresh       == ~Has(m.ExpTypes, expTypeName)
        et          == IF fresh THEN NextId(d, "expTypes") ELSE Get(m.ExpTypes, expTypeName)
        d1          == IF fresh THEN Insert(d, "expTypes", expTypeName) ELSE d
        m1          == IF fresh THEN [m EXCEPT !.ExpTypes = Put(@, expTypeName, et)] ELSE m
        entry       == EntryDoc(fields[2], fields[3], compound,
                                Resolution("sql", fields[7]), et, NoId)
    IN  IF ~Contains(ln, Tab) THEN Out(m, d)
        ELSE IF Len(fields) # 8 THEN Raise(m, d, "ValueError")
        ELSE IF ~CodeLengthOk(idCode) THEN Out(m, d)
        ELSE IF fresh /\ Refused(d, "expTypes", expTypeName)
             THEN Raise(m, d, "SQLAlchemyError")
        ELSE IF HasEntry(d1, idCode) THEN Raise(m1, d1, "IntegrityError")
        ELSE IF Refused(d, "entries", idCode) THEN Raise(m1, d1, "SQLAlchemyError")
        ELSE Out([m1 EXCEPT !.expTypesbyCode = Put(@, idCode, expTypeName)],
                 [d1 EXCEPT !.entries = (idCode :> entry) @@ @])

\* loadDB_mdb_plain.py: skip short lines, upper-case the code, insert the
\* document when there is none of that code; a refused insert is reported
EntryLinePlain(m, d, raw) ==
    LET ln          == RStrip(raw)
        fields      == Split(ln, Tab)
        idCode      == fields[1]
        compound    == IF fields[4] # << >> THEN Slice(fields[4], 1, CompoundMax) ELSE << >>
        id_code     == Upper(idCode)
        entry       == EntryDoc(fields[2], fields[3], compound,
                                Resolution("plain", fields[7]), fields[8], << >>)
    IN  IF ~Contains(ln, Tab) THEN Out(m, d)
        ELSE IF Len(fields) < 8 THEN Out(m, d)
        ELSE IF ~CodeLengthOk(idCode) THEN Out(m, d)
        ELSE IF HasEntry(d, id_code) \/ Refused(d, "entries", id_code) THEN Out(m, d)
        ELSE Out([m EXCEPT !.entries_created = @ + 1],
                 [d EXCEPT !.entries = (id_code :> entry) @@ @])

\* the body of the loop without compound[:255]: the Entry of the line is
\* stored with the whole compound field
EntryLineUncut(v, m, d, raw) ==
    LET o      == IF v = "sql" THEN EntryLineSql(m, d, raw) ELSE EntryLinePlain(m, d, raw)
        fields == Split(RStrip(raw), Tab)
        code   == IF v = "sql" THEN fields[1] ELSE Upper(fields[1])
    IN  IF o.exc = "none" /\ o.db.entries # d.entries
        THEN [o EXCEPT !.db.entries[code].compound = fields[4]]
        ELSE o

\* the body of the loop without entry.expType = et: the Entry of the line
\* is stored with no experimental type
EntryLineUntyped(v, m, d, raw) ==
    LET o    == IF v = "sql" THEN EntryLineSql(m, d, raw) ELSE EntryLinePlain(m, d, raw)
        code == Split(RStrip(raw), Tab)[1]
    IN  IF v = "sql" /\ o.exc = "none" /\ o.db.entries # d.entries
        THEN [o EXCEPT !.db.entries[code].expType = NoId]
        ELSE o

EntryLine(v, m, d, raw) ==
    IF v = "sql" THEN EntryLineSql(m, d, raw) ELSE EntryLinePlain(m, d, raw)

(***************************************************************************)
(* Classification: the body of the loop over pdb_entry_type.txt.           *)
(***************************************************************************)
SetRef(table, id, ref) ==
    [i \in 1..Len(table) |-> IF table[i].id = id THEN [table[i] EXCEPT !.ref = ref]
                             ELSE table[i]]

\* loadDB.py: intern class and compound type, set the class of the entry's
\* experimental type and the compound type of the entry; no handler catches
\* what a flush raises
TypeLineSql(m, d, raw) ==
    LET ln           == RStrip(raw)
        parts        == SplitWs(ln)
        idCode       == Upper(parts[1])
        compTypeName == parts[2]
        expClassName == parts[3]
        freshC       == ~Has(m.expClasses, expClassName)
        ec           == IF freshC THEN NextId(d, "expClasses")
                        ELSE Get(m.expClasses, expClassName)
        d1           == IF freshC THEN Insert(d, "expClasses", expClassName) ELSE d
        m1           == IF freshC THEN [m EXCEPT !.expClasses = Put(@, expClassName, ec)]
                        ELSE m
        freshT       == ~Has(m1.compTypes, compTypeName)
        ct           == IF freshT THEN NextId(d1, "compTypes")
                        ELSE Get(m1.compTypes, compTypeName)
        d2           == IF freshT THEN Insert(d1, "compTypes", compTypeName) ELSE d1
        m2           == IF freshT THEN [m1 EXCEPT !.compTypes = Put(@, compTypeName, ct)]
                        ELSE m1
        expTypeName  == IF Has(m2.expTypesbyCode, idCode) THEN Get(m2.expTypesbyCode, idCode)
                        ELSE << >>
        d3           == IF expTypeName # << >> /\ Has(m2.ExpTypes, expTypeName)
                        THEN [d2 EXCEPT !.expTypes = SetRef(@, Get(m2.ExpTypes, expTypeName), ec)]
                        ELSE d2
        d4           == IF HasEntry(d3, idCode)
                        THEN [d3 EXCEPT !.entries[idCode].compType = ct]
                        ELSE d3
    IN  IF ln = << >> THEN Out(m, d)
        ELSE IF Len(parts) # 3 THEN Raise(m, d, "ValueError")
        ELSE IF freshC /\ Refused(d, "expClasses", expClassName)
             THEN Raise(m, d, "SQLAlchemyError")
        ELSE IF freshT /\ Refused(d, "compTypes", compTypeName)
             THEN Raise(m1, d1, "SQLAlchemyError")
        ELSE Out(m2, d4)

\* loadDB_mdb_plain.py: collect the names, set both names on the entry
TypeLinePlain(m, d, raw) ==
    LET ln      == RStrip(raw)
        parts   == SplitWs(ln)
        id_code == Upper(parts[1])
        m1      == [m EXCEPT !.exp_classes = @ \cup {parts[3]},
                             !.comp_types = @ \cup {parts[2]}]
        d1      == IF HasEntry(d, id_code)
                   THEN [d EXCEPT !.entries[id_code].expClasse = parts[3],
                                  !.entries[id_code].compType = parts[2]]
                   ELSE d
    IN  IF ln = << >> THEN Out(m, d)
        ELSE IF Len(parts) < 3 THEN Out(m, d)
        ELSE Out(m1, d1)

TypeLine(v, m, d, raw) ==
    IF v = "sql" THEN TypeLineSql(m, d, raw) ELSE TypeLinePlain(m, d, raw)

RECURSIVE InsertNames(_, _, _)
\* loadDB_mdb_plain.py: one document per collected name, a refused one is
\* reported and left out
InsertNames(d, kind, names) ==
    IF names = << >> THEN d
    ELSE InsertNames(IF Refused(d, kind, Head(names)) THEN d
                     ELSE [d EXCEPT ![kind] = Append(@, Row(NoId, Head(names)))],
                     kind, Tail(names))

\* the orders in which a loop over a Python set can visit its members
Orders(S) ==
    {o \in [1..Cardinality(S) -> S] : \A i, j \in 1..Cardinality(S) : o[i] = o[j] => i = j}

(***************************************************************************)
(* Sequences: the body of the loop over pdb_seqres.txt and the flush of    *)
(* the last block after it.                                                *)
(***************************************************************************)
SeqDoc(m) ==
    [ idCode   |-> Upper(m.idPdb),
      chain    |-> Remove(m.chain, " "),
      sequence |-> Remove(m.seq, "\n"),
      header   |-> m.header ]

\* whether the accumulated block is written out
Flushes(v, m) == IF v = "sql" THEN m.seq # << >> ELSE m.seq # << >> /\ m.idPdb # << >>

\* the write of one block: loadDB.py adds the row to the session,
\* loadDB_mdb_plain.py pushes it on the entry with that code when there is
\* one; the record handed to the sink is noted in emitted
StoreSequence(v, m, d) ==
    IF v = "sql"
    THEN Out([m EXCEPT !.emitted = Append(@, SeqDoc(m))],
             [d EXCEPT !.sequences = Append(@, SeqDoc(m))])
    ELSE Out([m EXCEPT !.sequences_added = @ + 1, !.emitted = Append(@, SeqDoc(m))],
             IF HasEntry(d, Upper(m.idPdb))
             THEN [d EXCEPT !.sequences = Append(@, SeqDoc(m))] ELSE d)

\* the block is written and seq emptied (both inside the same if)
Flush(v, m, d) ==
    IF Flushes(v, m)
    THEN LET o == StoreSequence(v, m, d) IN Out([o.mem EXCEPT !.seq = << >>], o.db)
    ELSE Out(m, d)

\* the body of the loop with a header that does not match the pattern
\* clearing the code and the chain
SeqLineForgets(v, m, d, raw) ==
    LET ln     == RStrip(raw)
        o      == Flush(v, m, d)
        groups == HeaderMatch(ln)
        m1     == IF groups # NoMatch
                  THEN [o.mem EXCEPT !.idPdb = groups[1], !.chain = groups[2]]
                  ELSE [o.mem EXCEPT !.idPdb = << >>, !.chain = << >>]
    IN  IF ln # << >> /\ ln[1] = ">"
        THEN Out([m1 EXCEPT !.header = Remove(ln, ">")], o.db)
        ELSE Out([m EXCEPT !.seq = @ \o ln], d)

SeqLine(v, m, d, raw) ==
    LET ln     == RStrip(raw)
        o      == Flush(v, m, d)
        groups == HeaderMatch(ln)
        m1     == IF groups # NoMatch
                  THEN [o.mem EXCEPT !.idPdb = groups[1], !.chain = groups[2]]
                  ELSE o.mem
    IN  IF ln # << >> /\ ln[1] = ">"
        THEN Out([m1 EXCEPT !.header = Remove(ln, ">")], o.db)
        ELSE Out([m EXCEPT !.seq = @ \o ln], d)

\* after the loop: the last block
SeqLast(v, m, d) ==
    IF Flushes(v, m) THEN StoreSequence(v, m, d) ELSE Out(m, d)

\* the primary key (idCode, chain) of the sequences table
SequenceKeys(table) == [i \in 1..Len(table) |-> <<table[i].idCode, table[i].chain>>]

(***************************************************************************)
(* Linking (loadDB.py): the bodies of the two loops, and the loops.        *)
(***************************************************************************)
LinkSource(m, d, pair) ==
    LET row == <<pair[1], pair[2]>>
    IN  IF Has(m.SOURCES, pair[2]) /\ HasEntry(d, pair[1])
        THEN IF ~Member(row, d.entry_has_source)
             THEN [d EXCEPT !.entry_has_source = Append(@, row)]
             ELSE d
        ELSE d

\* the association is attached without looking for the Entry
LinkAuthorUnchecked(m, d, pair) ==
    [d EXCEPT !.author_has_entry = Append(@, <<pair[1], pair[2]>>)]

LinkAuthor(m, d, pair) ==
    IF Has(m.AUTHORS, pair[1]) /\ HasEntry(d, pair[2])
    THEN [d EXCEPT !.author_has_entry = Append(@, <<pair[1], pair[2]>>)]
    ELSE d

RECURSIVE LinkSources(_, _, _)
LinkSources(m, d, pairs) ==
    IF pairs = << >> THEN d
    ELSE LinkSources(m, LinkSource(m, d, Head(pairs)), Tail(pairs))

RECURSIVE LinkAuthors(_, _, _)
LinkAuthors(m, d, pairs) ==
    IF pairs = << >> THEN d
    ELSE LinkAuthors(m, LinkAuthor(m, d, Head(pairs)), Tail(pairs))

(***************************************************************************)
(* The run.                                                                *)
(*   variant    the loader that runs                                       *)
(*   pc         the phase the script is in                                 *)
(*   status     "running", or how the process ended: "exit0", "exit1"      *)
(*              (sys.exit(1) of a handler, sys.exit of a message), "exit2" *)
(*              (the command line is refused), "crash" (uncaught           *)
(*              exception)                                                 *)
(*   nread      the number of input lines read so far                      *)
(*   file       the lines read so far from the input file that is open     *)
(*   mem        the variables of the script                                *)
(*   db         the store as the script sees it                            *)
(*   committed  the store as it stays when the process ends                *)
(*   begun      the store as it was when the phase that runs was entered   *)
(*   sourceFile the lines of source.idx read so far                        *)
(*   inputs     the input files, when the run is given whole files; when   *)
(*              it is not, every read draws any line                       *)
(*   earlier    the stores the earlier runs on these files ended with      *)
(*   at         the number of statements of Clean that have been executed  *)
(***************************************************************************)
VARIABLES variant, pc, status, nread, file, mem, db, committed, begun, sourceFile,
          inputs, earlier, at

vars ==
    <<variant, pc, status, nread, file, mem, db, committed, begun, sourceFile, inputs,
      earlier, at>>

Variants == {"sql", "orm", "mdb", "plain", "mengine"}

\* the phases that read an input file line by line
InputPhases ==
    {"LoadAuthors", "LoadSources", "LoadEntries", "ClassifyEntries", "LoadSequences"}

\* no files are given: the lines are drawn as they are read
Lazy == [fixed |-> FALSE, files |-> [p \in InputPhases |-> << >>]]

\* the first run of a loader on a store d
Begin(d) ==
    /\ variant \in Variants
    /\ pc = "Start"
    /\ status = "running"
    /\ nread = 0
    /\ file = << >>
    /\ mem = InitMem
    /\ db = d
    /\ committed = d
    /\ begun = d
    /\ sourceFile = << >>
    /\ earlier = << >>
    /\ at = 0

Init ==
    /\ Begin(EmptyStore)
    /\ inputs = Lazy

\* the order of the sections of loadDB.py and of loadDB_mdb_plain.py
AfterClean(v) == IF v = "sql" THEN "LoadAuthors" ELSE "LoadEntries"

AfterStart(v, drop) == IF v = "sql" \/ drop THEN "Clean" ELSE AfterClean(v)

AfterAuthors(v) == IF v = "sql" THEN "LoadSources" ELSE "LoadSequences"

AfterSources(v) == IF v = "sql" THEN "LoadEntries" ELSE "Done"

AfterEntries(v) == "ClassifyEntries"

AfterTypes(v) == IF v = "sql" THEN "LoadSequences" ELSE "LoadAuthors"

AfterSequences(v) == IF v = "sql" THEN "LinkSources" ELSE "LoadSources"

\* the phases that open an input file inside try ... except IOError
FilePhases ==
    {"LoadAuthors", "LoadSources", "LoadEntries", "ClassifyEntries", "LoadSequences"}

\* every write of loadDB_mdb_plain.py is durable at once; loadDB.py writes
\* inside the transaction that the commit at the end of the phase ends
Durable(v, cm, d) == IF v = "sql" THEN cm ELSE d

\* the state after one pass of a loop body that left o; an exception that
\* leaves the loop ends the process with the session as it is, uncommitted
Pass(o) ==
    /\ mem' = o.mem
    /\ db' = o.db
    /\ committed' = Durable(variant, committed, o.db)
    /\ status' = IF o.exc = "none" THEN status ELSE "crash"

\* raw is the line the next read of the file of the phase returns
Offered(phase, raw) ==
    IF inputs.fixed
    THEN /\ Len(file) < Len(inputs.files[phase])
         /\ raw = inputs.files[phase][Len(file) + 1]
    ELSE nread < MaxLines

\* the loop over the file of the phase is over
AtEof(phase) ==
    (inputs.fixed /\ phase \in InputPhases) => Len(file) = Len(inputs.files[phase])

Reads(phase, raw) ==
    /\ status = "running"
    /\ pc = phase
    /\ Offered(phase, raw)
    /\ nread' = nread + 1
    /\ file' = Append(file, raw)
    /\ UNCHANGED begun

\* the end of a phase: commit, go on with the next section
Ends(phase, d, next) ==
    /\ status = "running"
    /\ pc = phase
    /\ AtEof(phase)
    /\ file' = << >>
    /\ db' = d
    /\ committed' = d
    /\ begun' = d
    /\ pc' = next
    /\ status' = IF next = "Done" THEN "exit0" ELSE status

\* how the statements before the first section can end the run, by the
\* command line and the environment the script is started in.  Each script
\* but loadDB_mdb_mongoengine.py parses the command line before it can fail
\* otherwise: -h prints the help and exits with 0, an option the parser
\* does not know (or a --port that is no number) exits with 2.
\*   loadDB.py      the import of models.pdb_models raises
\*                  ModuleNotFoundError where no such module is on the path
\*                  (none lies next to the script); --build-db creates the
\*                  tables and exits with 0, or raises when the database
\*                  does not answer
\*   loadDB_mdb_plain.py
\*                  with MDB_USERNAME and MDB_PASSWORD set the connection
\*                  string uses host, a name the script never binds; the
\*                  handler of the connection prints and exits with 1
\*   loadDB_orm.py  exits with 1 when SQL_USERNAME or SQL_PASSWORD is not
\*                  set, before it parses the command line; exits with 0
\*                  after --build_db, and raises NameError at the first use
\*                  of user, a name it never binds
\*   loadDB_mdb.py  after the command line, the import of
\*                  models/pdb_models.py raises NameError at class Entry:
\*                  ReferenceDocument is not a name of mongoengine
\*   loadDB_mdb_mongoengine.py
\*                  the same import, before the command line is parsed
StartStops(v) ==
    CASE v = "sql"     -> {"exit0", "exit2", "crash"}
      [] v = "plain"   -> {"exit0", "exit2", "exit1"}
      [] v = "orm"     -> {"exit1", "exit0", "exit2", "crash"}
      [] v = "mdb"     -> {"exit0", "exit2", "crash"}
      [] v = "mengine" -> {"crash"}

\* whether the script reaches its sections
StartPasses(v) == v \in {"sql", "plain"}

Start ==
    /\ status = "running"
    /\ pc = "Start"
    /\ \/ /\ StartPasses(variant)
          /\ \E drop \in BOOLEAN : pc' = AfterStart(variant, drop)
          /\ status' = status
       \/ /\ status' \in StartStops(variant)
          /\ pc' = pc
    /\ UNCHANGED <<inputs, earlier, at, variant, nread, file, mem, db, committed, begun,
                   sourceFile>>

\* one statement of the Clean section: a DELETE FROM of loadDB.py inside
\* the transaction, a drop of a collection of loadDB_mdb_plain.py
CleanStep ==
    /\ status = "running"
    /\ pc = "Clean"
    /\ at < Len(CleanOrder(variant))
    /\ at' = at + 1
    /\ db' = Delete(db, CleanOrder(variant)[at + 1])
    /\ committed' = Durable(variant, committed, db')
    /\ UNCHANGED <<inputs, earlier, variant, pc, status, nread, file, mem, begun,
                   sourceFile>>

\* the end of the Clean section: loadDB.py commits and resets AUTO_INCREMENT,
\* table by table; any of the five statements can fail
Clean ==
    /\ at = Len(CleanOrder(variant))
    /\ at' = 0
    /\ \E failed \in SUBSET Kinds :
          Ends("Clean", ResetIds(variant, db, failed), AfterClean(variant))
    /\ UNCHANGED <<inputs, earlier, variant, nread, mem, sourceFile>>

AuthorsLine ==
    \E raw \in AuthorLines :
        /\ Reads("LoadAuthors", raw)
        /\ Pass(AuthorLine(variant, mem, db, raw))
        /\ UNCHANGED <<inputs, earlier, at, variant, pc, sourceFile>>

AuthorsEnd ==
    /\ Ends("LoadAuthors", AuthorsWritten(variant, mem, db), AfterAuthors(variant))
    /\ UNCHANGED <<inputs, earlier, at, variant, nread, mem, sourceFile>>

SourcesLine ==
    \E raw \in SourceLines :
        /\ Reads("LoadSources", raw)
        /\ Pass(SourceLine(variant, mem, db, raw))
        /\ sourceFile' = Append(sourceFile, raw)
        /\ UNCHANGED <<inputs, earlier, at, variant, pc>>

SourcesEnd ==
    /\ Ends("LoadSources", SourcesWritten(variant, mem, db), AfterSources(variant))
    /\ UNCHANGED <<inputs, earlier, at, variant, nread, mem, sourceFile>>

\* the lines entries.idx can hold: those of the given file, or any of
\* EntryLines when the file is not fixed beforehand
EntryLinesIn ==
    IF inputs.fixed
    THEN {inputs.files["LoadEntries"][i] : i \in 1..Len(inputs.files["LoadEntries"])}
    ELSE EntryLines

EntriesLine ==
    \E raw \in EntryLinesIn :
        /\ Reads("LoadEntries", raw)
        /\ Pass(EntryLine(variant, mem, db, raw))
        /\ UNCHANGED <<inputs, earlier, at, variant, pc, sourceFile>>

EntriesEnd ==
    /\ Ends("LoadEntries", db, AfterEntries(variant))
    /\ UNCHANGED <<inputs, earlier, at, variant, nread, mem, sourceFile>>

TypesLine ==
    \E raw \in TypeLines :
        /\ Reads("ClassifyEntries", raw)
        /\ Pass(TypeLine(variant, mem, db, raw))
        /\ UNCHANGED <<inputs, earlier, at, variant, pc, sourceFile>>

TypesEnd ==
    /\ \E ec \in Orders(mem.exp_classes), ct \in Orders(mem.comp_types) :
          Ends("ClassifyEntries",
               InsertNames(InsertNames(db, "expClasses", ec), "compTypes", ct),
               AfterTypes(variant))
    /\ UNCHANGED <<inputs, earlier, at, variant, nread, mem, sourceFile>>

SequencesLine ==
    \E raw \in SeqLines :
        /\ Reads("LoadSequences", raw)
        /\ Pass(SeqLine(variant, mem, db, raw))
        /\ UNCHANGED <<inputs, earlier, at, variant, pc, sourceFile>>

\* the last block, then the commit; a repeated (idCode, chain) makes the
\* commit of loadDB.py raise IntegrityError, which no handler catches
SequencesEnd ==
    LET o == SeqLast(variant, mem, db)
    IN  /\ status = "running"
        /\ pc = "LoadSequences"
        /\ AtEof("LoadSequences")
        /\ file' = << >>
        /\ mem' = o.mem
        /\ IF variant = "sql" /\ ~Distinct(SequenceKeys(o.db.sequences))
           THEN /\ db' = committed
                /\ status' = "crash"
                /\ UNCHANGED <<pc, committed, begun>>
           ELSE /\ db' = o.db
                /\ committed' = o.db
                /\ begun' = o.db
                /\ pc' = AfterSequences(variant)
                /\ status' = status
        /\ UNCHANGED <<inputs, earlier, at, variant, nread, sourceFile>>

\* the commit after a linking loop; loadDB.py catches what it raises, rolls
\* back and exits
LinkCommit(phase, d, rows, next) ==
    /\ status = "running"
    /\ pc = phase
    /\ file' = << >>
    /\ IF variant = "sql" /\ ~Distinct(rows)
       THEN /\ db' = committed
            /\ status' = "exit1"
            /\ UNCHANGED <<pc, committed, begun>>
       ELSE /\ db' = d
            /\ committed' = d
            /\ begun' = d
            /\ pc' = next
            /\ status' = IF next = "Done" THEN "exit0" ELSE status

LinkSourcesPhase ==
    LET d == LinkSources(mem, db, mem.source_entries)
    IN  /\ LinkCommit("LinkSources", d, d.entry_has_source, "LinkAuthors")
        /\ UNCHANGED <<inputs, earlier, at, variant, nread, mem, sourceFile>>

LinkAuthorsPhase ==
    LET d == LinkAuthors(mem, db, mem.author_entries)
    IN  /\ LinkCommit("LinkAuthors", d, d.author_has_entry, "Done")
        /\ UNCHANGED <<inputs, earlier, at, variant, nread, mem, sourceFile>>

\* open() or the read of the next line raises IOError: the handler of the
\* phase prints, loadDB.py rolls back, and the script exits with 1
IOError ==
    /\ status = "running"
    /\ pc \in FilePhases
    /\ status' = "exit1"
    /\ db' = Durable(variant, committed, db)
    /\ UNCHANGED <<inputs, earlier, at, variant, pc, nread, file, mem, committed, begun, sourceFile>>

\* the script is started again on the same files, after a run that reached
\* Done; the store is as that run left it
Rerun ==
    /\ inputs.fixed
    /\ pc = "Done"
    /\ status = "exit0"
    /\ Len(earlier) + 1 < MaxRuns
    /\ earlier' = Append(earlier, committed)
    /\ pc' = "Start"
    /\ status' = "running"
    /\ nread' = 0
    /\ mem' = InitMem
    /\ db' = committed
    /\ sourceFile' = << >>
    /\ UNCHANGED <<inputs, at, variant, file, committed, begun>>

Next ==
    \/ Start
    \/ CleanStep
    \/ Clean
    \/ AuthorsLine
    \/ AuthorsEnd
    \/ SourcesLine
    \/ SourcesEnd
    \/ EntriesLine
    \/ EntriesEnd
    \/ TypesLine
    \/ TypesEnd
    \/ SequencesLine
    \/ SequencesEnd
    \/ LinkSourcesPhase
    \/ LinkAuthorsPhase
    \/ IOError

Spec == Init /\ [][Next]_vars

(***************************************************************************)
(* Runs on given files: the files are chosen before the first run, every   *)
(* run reads them from their first line to their last, and a run that      *)
(* reached Done can be followed by another one on the store it left.       *)
(***************************************************************************)
GivenFiles ==
    [ LoadAuthors     |-> { << >>,
                            <<K1 \o SepAuthor \o <<"X">> \o NL>>,
                            <<K1 \o SepAuthor \o <<"X">> \o NL,
                              K1 \o SepAuthor \o <<"X">> \o SepAuthor \o <<"Y">> \o NL>> },
      LoadSources     |-> { << >>,
                            <<K1 \o <<" ", "A">> \o SepSource \o <<"B">> \o NL>>,
                            <<K2 \o <<" ", "B">> \o NL,
                              K1 \o <<" ", "A">> \o SepSource \o <<"B">> \o NL>> },
      LoadEntries     |-> { << >>,
                            <<EntryText(K1, <<"C">>, <<"2", ".", "1", "0", ",", "1", ".", "8", "0">>,
                                        <<"X">>)>>,
                            <<EntryText(K1, <<"C">>, <<"2", ".", "1", "0", ",", "1", ".", "8", "0">>,
                                        <<"X">>),
                              EntryText(K2, <<"C">>, <<"N", "O", "T">>, <<"X">>)>> },
      ClassifyEntries |-> { << >>,
                            <<K1low \o <<" ", "p", " ", "d">> \o NL>>,
                            <<K1low \o <<" ", "p", " ", "d">> \o NL,
                              K2low \o <<" ", "q", " ", "n">> \o NL>> },
      LoadSequences   |-> { << >>,
                            <<HeaderText(K1low, <<"A">>), <<"M", "K">> \o NL>>,
                            <<HeaderText(K1low, <<"A">>), <<"M", "K">> \o NL,
                              HeaderText(K1low, <<"A">>), <<"L", "T">> \o NL>> } ]

\* the records the sink of a run rejects: none, or those of one key
Refusals ==
    { {},
      {<<"authors", <<"X">>>>},
      {<<"sources", <<"B">>>>},
      {<<"entries", K1>>},
      {<<"expTypes", <<"X">>>>},
      {<<"expClasses", <<"d">>>>},
      {<<"compTypes", <<"p">>>>} }

InitGiven ==
    /\ \E r \in Refusals : Begin([EmptyStore EXCEPT !.refuses = r])
    /\ \E f \in [InputPhases -> UNION {GivenFiles[p] : p \in InputPhases}] :
          /\ \A p \in InputPhases : f[p] \in GivenFiles[p]
          /\ inputs = [fixed |-> TRUE, files |-> f]

NextGiven ==
    \/ Next
    \/ Rerun

SpecGiven == InitGiven /\ [][NextGiven]_vars

(***************************************************************************)
(* Runs on an entries.idx with long compound fields: the other files are   *)
(* empty, the compound field of each line has a length around the 255      *)
(* characters the loaders keep.                                            *)
(***************************************************************************)
\* a compound field of n characters, no two neighbours alike
CompoundOf(n) == [i \in 1..n |-> IF i % 3 = 0 THEN "C" ELSE IF i % 3 = 1 THEN "A" ELSE "B"]

CompoundLengths ==
    {0, 1, CompoundMax - 1, CompoundMax, CompoundMax + 1, CompoundMax + CompoundMax}

CompoundFiles ==
    {<<EntryText(K1, CompoundOf(n), <<"1", ".", "5">>, <<"X">>)>> : n \in CompoundLengths}
    \cup {<<EntryText(K1, CompoundOf(CompoundMax + 1), <<"1", ".", "5">>, <<"X">>),
            EntryText(K2, CompoundOf(n), <<"N", "O", "T">>, <<"X">>)>>
              : n \in {CompoundMax, CompoundMax + 1}}

InitCompound ==
    /\ Begin(EmptyStore)
    /\ \E f \in CompoundFiles :
          inputs = [fixed |-> TRUE, files |-> [Lazy.files EXCEPT !["LoadEntries"] = f]]

NextCompound ==
    \/ Start
    \/ CleanStep
    \/ Clean
    \/ AuthorsEnd
    \/ SourcesEnd
    \/ EntriesLine
    \/ EntriesEnd
    \/ TypesEnd
    \/ SequencesEnd
    \/ LinkSourcesPhase
    \/ LinkAuthorsPhase
    \/ IOError

SpecCompound == InitCompound /\ [][NextCompound]_vars

(***************************************************************************)
(* What the input files say, read off their lines.                         *)
(***************************************************************************)
\* the author name of a line of author.idx: the text after the first " ; "
\* of a line that has a code before it; << >> when the line is not well-formed
AuthorNameOf(raw) ==
    LET ln == RStrip(raw)
        p  == Find(ln, SepAuthor)
    IN  IF p <= 1 THEN << >> ELSE Slice(ln, p + Len(SepAuthor), Len(ln))

WellFormedAuthors(lines) == {AuthorNameOf(lines[i]) : i \in 1..Len(lines)} \ {<< >>}

Names(table) == {table[i].name : i \in 1..Len(table)}

\* the code of a line of entries.idx: the text before the first tab
EntryCodeOf(raw) == SplitOnce(RStrip(raw), Tab)[1]

Last(lines) == lines[Len(lines)]

\* the resolution field of a line of entries.idx with eight fields, cut at
\* its first comma
ResolutionOf(raw) == SplitOnce(Split(RStrip(raw), Tab)[7], <<",">>)[1]

\* the line has eight fields and its resolution is "NOT" or no decimal number
NoResolution(raw) ==
    /\ Len(Split(RStrip(raw), Tab)) = 8
    /\ ResolutionOf(raw) = <<"N", "O", "T">> \/ ParseFloat(ResolutionOf(raw)) = ValueError

\* the codes whose Entry the step from store d to store e has written
Written(d, e) ==
    {c \in DOMAIN e.entries : c \notin DOMAIN d.entries \/ e.entries[c] # d.entries[c]}

\* pdb_seqres.txt: a header line starts with ">"
IsHeader(raw) == RStrip(raw) # << >> /\ RStrip(raw)[1] = ">"

Headers(lines) == {i \in 1..Len(lines) : IsHeader(lines[i])}

\* a FASTA-like stream: it starts with a header and every header has the
\* form of the pattern
FastaLike(lines) ==
    /\ lines # << >> => IsHeader(lines[1])
    /\ \A i \in Headers(lines) : HeaderMatch(RStrip(lines[i])) # NoMatch

\* the body of header i: the lines up to the next header or the end
BodyOf(lines, i) ==
    LET later == {j \in Headers(lines) : j > i}
        next  == IF later = {} THEN Len(lines) + 1
                 ELSE CHOOSE j \in later : \A k \in later : j <= k
    IN  Concat([k \in 1..(next - i - 1) |-> RStrip(lines[i + k])])

CodeOfHeader(raw) == Upper(HeaderMatch(RStrip(raw))[1])

RecordOf(lines, i) ==
    [ idCode   |-> CodeOfHeader(lines[i]),
      chain    |-> Remove(HeaderMatch(RStrip(lines[i]))[2], " "),
      sequence |-> BodyOf(lines, i),
      header   |-> Remove(RStrip(lines[i]), ">") ]

RECURSIVE RecordsOf(_, _)
\* the records of the headers in S, in the order of the file
RecordsOf(lines, S) ==
    IF S = {} THEN << >>
    ELSE LET i == CHOOSE j \in S : \A k \in S : j <= k
         IN  <<RecordOf(lines, i)>> \o RecordsOf(lines, S \ {i})

\* the headers that are followed by a non-empty body
WithBody(lines) == {i \in Headers(lines) : BodyOf(lines, i) # << >>}

\* loadDB_mdb_plain.py keeps a Sequence inside its Entry, loadDB.py in a table
\* of its own
Owned(v, d, lines) ==
    {i \in Headers(lines) : v = "sql" \/ HasEntry(d, CodeOfHeader(lines[i]))}

\* source.idx: the code is the text before the first blank of the line, the
\* source list the text after it, its names separated by "; "
SourceCodeOf(raw) == SplitOnce(RStrip(raw), <<" ">>)[1]

SourceNamesOf(raw) ==
    LET p == Find(RStrip(raw), <<" ">>)
    IN  IF p = 0 THEN << >>
        ELSE Split(LStrip(Slice(RStrip(raw), p, Len(RStrip(raw)))), SepSource)

\* the order of the phases as the specification states it
StatedOrder ==
    <<"Clean", "LoadAuthors", "LoadSources", "LoadEntries", "ClassifyEntries",
      "LoadSequences", "LinkSources", "LinkAuthors", "Done">>

\* the order of the sections of loadDB.py and of loadDB_mdb_plain.py, top
\* to bottom
ScriptOrder(v) ==
    IF v = "sql" THEN StatedOrder
    ELSE <<"Clean", "LoadEntries", "ClassifyEntries", "LoadAuthors", "LoadSequences",
           "LoadSources", "Done">>

\* q is the phase right after p in order
Follows(order, p, q) == \E i \in 1..(Len(order) - 1) : order[i] = p /\ order[i + 1] = q

\* the key under which a linking loop looks for the Entry of a code
EntryKey(v, code) == IF v = "sql" THEN code ELSE Upper(code)

Rows(table) == {table[i] : i \in 1..Len(table)}

\* the rows <<code, source>> owed to the recorded pairs <<code, source>>: those
\* whose Source is stored and whose Entry is stored
SourceLinksOwed(v, d, pairs) ==
    {<<EntryKey(v, pairs[i][1]), pairs[i][2]>> : i \in
        {j \in 1..Len(pairs) : /\ pairs[j][2] \in Names(d.sources)
                               /\ HasEntry(d, EntryKey(v, pairs[j][1]))}}

\* the rows <<author, code>> owed to the recorded pairs <<author, code>>
AuthorLinksOwed(v, d, pairs) ==
    {<<pairs[i][1], EntryKey(v, pairs[i][2])>> : i \in
        {j \in 1..Len(pairs) : /\ pairs[j][1] \in Names(d.authors)
                               /\ HasEntry(d, EntryKey(v, pairs[j][2]))}}

Count(table, name) == Cardinality({i \in 1..Len(table) : table[i].name = name})

IdOf(table, name) == table[CHOOSE i \in 1..Len(table) : table[i].name = name].id

(***************************************************************************)
(* The properties.                                                         *)
(***************************************************************************)
\* C1: when the Authors phase commits, the stored authors are the distinct
\* names of the well-formed lines of author.idx, one Author for each, however
\* often a name is repeated, and there is no Author for any other name.
C1_OneAuthorPerName ==
    [][ (pc = "LoadAuthors" /\ pc' # "LoadAuthors")
        => /\ Names(committed'.authors) = WellFormedAuthors(file)
           /\ Len(committed'.authors) = Cardinality(WellFormedAuthors(file)) ]_vars

\* two lines of author.idx with the same name were read, one Author is stored
C1_Witness ==
    /\ pc = "LoadSources"
    /\ Len(mem.author_entries) = 2
    /\ Len(committed.authors) = 1

\* C2: interning is idempotent for every kind: a natural key is stored at
\* most once, and once it is stored no later step adds an entity for it or
\* gives it another id.
C2_InternIdempotent ==
    [][ \A k \in Kinds :
          /\ \A n \in Names(db'[k]) : Count(db'[k], n) = 1
          /\ \A n \in Names(db[k]) \cap Names(db'[k]) :
                IdOf(db'[k], n) = IdOf(db[k], n) ]_vars

\* loadDB.py has met a source name twice and the same class and compound
\* type on two classification lines: one Source for the name, one class, one
\* compound type
C2_Witness ==
    /\ variant = "sql"
    /\ pc = "LoadSequences"
    /\ Len(sourceFile) = 2
    /\ Len(mem.source_entries) = 3
    /\ Len(db.sources) = 2
    /\ nread = 4
    /\ Len(db.expClasses) = 1
    /\ Len(db.compTypes) = 1

\* C3: no Entry is ever stored under a code that is not exactly 4 characters
\* long, and reading a line of entries.idx with such a code writes nothing:
\* no Entry, no ExperimentalType, and the run goes on.
C3_OnlyFourCharacterCodes ==
    [][ /\ \A c \in DOMAIN db'.entries : Len(c) = 4
        /\ \A c \in DOMAIN committed'.entries : Len(c) = 4
        /\ (pc = "LoadEntries" /\ Len(file') > Len(file) /\ Len(EntryCodeOf(Last(file'))) # 4)
              => (db' = db /\ committed' = committed /\ status' = "running") ]_vars

\* C4: a line of entries.idx with a 4-character code that is not stored yet
\* and with the resolution "NOT", or one that is no decimal number, stores its
\* Entry with the resolution null, never zero, and the loop goes on.
C4_NullResolution ==
    [][ ( /\ pc = "LoadEntries"
          /\ Len(file') > Len(file)
          /\ NoResolution(Last(file'))
          /\ Len(EntryCodeOf(Last(file'))) = 4
          /\ Upper(EntryCodeOf(Last(file'))) \notin DOMAIN db.entries )
        => /\ status' = "running"
           /\ Written(db, db') # {}
           /\ \A c \in Written(db, db') : db'.entries[c].resolution = Null ]_vars

\* C5: when the Sequences phase of a FASTA-like stream ends, the Sequence
\* records it has emitted (handed to the sink) are those of the headers that
\* are followed by a non-empty body, one for each, in the order of the input,
\* the last block included; a header with an empty body has emitted nothing.
C5_OneRecordPerBlock ==
    [][ (pc = "LoadSequences" /\ pc' # pc /\ FastaLike(file))
        => mem'.emitted = RecordsOf(file, WithBody(file)) ]_vars

\* C6: after a run that reached Done, for every line of source.idx with a
\* 4-character code of a stored Entry and a list of n distinct names separated
\* by "; ", each of the n names is a stored Source and is linked to that Entry.
C6_EachSourceNameLinked ==
    status = "exit0" =>
        \A i \in 1..Len(sourceFile) :
            LET code  == SourceCodeOf(sourceFile[i])
                names == SourceNamesOf(sourceFile[i])
            IN  (Len(code) = 4 /\ Distinct(names) /\ HasEntry(committed, code))
                => \A k \in 1..Len(names) :
                      /\ Count(committed.sources, names[k]) = 1
                      /\ Member(<<code, names[k]>>, committed.entry_has_source)

\* C7: every loader starts with Clean and goes from each phase to
\* the next one of Clean, LoadAuthors, LoadSources, LoadEntries,
\* ClassifyEntries, LoadSequences, LinkSources, LinkAuthors, Done.
C7_StatedOrder ==
    [][ pc' # pc =>
          \/ pc = "Start" /\ pc' = "Clean"
          \/ Follows(StatedOrder, pc, pc') ]_vars

\* C8: when the open or a read of the input file of a phase raises an I/O
\* error, the run ends there with a non-zero exit code, Done is not reached,
\* and the sink is as it was when the phase was entered: the writes of the
\* phase are gone, those of the phases before it are kept.
C8_IOErrorRollsBack ==
    [][ (status = "running" /\ status' = "exit1" /\ pc \in FilePhases)
        => /\ pc' = pc
           /\ pc' # "Done"
           /\ committed' = begun ]_vars

\* C9: a run that was stopped by a failure leaves nothing of the phase it was
\* in (and a run that reached Done all of it): no phase is left partly written.
C9_PhasesAtomic ==
    /\ status \in {"exit1", "crash"} => committed = begun
    /\ status = "exit0" => committed = db

\* C10: LinkSources and LinkAuthors attach the association of a recorded
\* pair if and only if its Author or Source is stored and an Entry with its
\* code is stored; a pair whose Entry is missing changes nothing, no other
\* table changes, and the phase ends normally and is committed.
C10_LinkIffEntryExists ==
    [][ /\ pc = "LinkSources" =>
            /\ pc' = "LinkAuthors" /\ status' = "running"
            /\ Rows(db'.entry_has_source)
                   = Rows(db.entry_has_source)
                       \cup SourceLinksOwed(variant, db, mem.source_entries)
            /\ [db' EXCEPT !.entry_has_source = db.entry_has_source] = db
            /\ committed' = db'
        /\ pc = "LinkAuthors" =>
            /\ pc' = "Done" /\ status' = "exit0"
            /\ Rows(db'.author_has_entry)
                   = Rows(db.author_has_entry)
                       \cup AuthorLinksOwed(variant, db, mem.author_entries)
            /\ [db' EXCEPT !.author_has_entry = db.author_has_entry] = db
            /\ committed' = db' ]_vars

\* a run has ended with an association attached for the pairs whose Entry is
\* stored and with pairs of both kinds skipped because theirs is not
C10_Witness ==
    /\ status = "exit0"
    /\ HasLinkPhases(variant)
    /\ committed.entry_has_source # << >>
    /\ \E i \in 1..Len(mem.source_entries) :
          ~HasEntry(committed, EntryKey(variant, mem.source_entries[i][1]))
    /\ \E i \in 1..Len(mem.author_entries) :
          ~HasEntry(committed, EntryKey(variant, mem.author_entries[i][2]))

\* C11: after a run that reached Done (the linking is over), every
\* (Entry, Source) pair and every (Author, Entry) pair is associated at most
\* once, also when the input repeats an association line or repeats a source
\* name within one line.
C11_AssociatedAtMostOnce ==
    status = "exit0" =>
        /\ Distinct(committed.entry_has_source)
        /\ Distinct(committed.author_has_entry)

\* the number of stored records of each kind and of associations
Counts(d) ==
    [ authors          |-> Len(d.authors),
      sources          |-> Len(d.sources),
      expTypes         |-> Len(d.expTypes),
      expClasses       |-> Len(d.expClasses),
      compTypes        |-> Len(d.compTypes),
      entries          |-> Cardinality(DOMAIN d.entries),
      sequences        |-> Len(d.sequences),
      author_has_entry |-> Len(d.author_has_entry),
      entry_has_source |-> Len(d.entry_has_source) ]

\* C12: a second run of the full load on the same input files, after a
\* first run that reached Done, ends with the same number of Entries, Authors,
\* Sources, ExperimentalTypes, ExperimentalClasses, CompoundTypes, Sequences
\* and associations as the first run.
C12_RerunSameCounts ==
    (status = "exit0" /\ earlier # << >>) => Counts(committed) = Counts(earlier[1])

\* the tables and collections of the store
Tables == DOMAIN EmptyStore \ {"auto", "refuses"}

\* the tables the first n statements of Clean have emptied
Cleaned(v, n) == UNION {CleanOrder(v)[i] : i \in 1..n}

\* a set of emptied tables that respects the references: no table is in it
\* before the tables that refer to it
Respects(S) ==
    /\ "entries" \in S => {"author_has_entry", "entry_has_source", "sequences"} \subseteq S
    /\ {"sources", "authors", "expTypes", "compTypes"} \cap S # {} => "entries" \in S
    /\ "expClasses" \in S => "expTypes" \in S

\* the next surrogate id of every kind is 1
IdsRestart(v, d) == v = "sql" => \A k \in Kinds : NextId(d, k) = 1

\* every statement of Clean empties its tables and leaves the others alone
CleanEmpties ==
    /\ (pc = "Clean" /\ pc' = "Clean")
          => /\ at' = at + 1
             /\ \A k \in Tables : db'[k] = IF k \in Cleaned(variant, at') THEN EmptyStore[k]
                                           ELSE db[k]
    /\ (pc = "Clean" /\ pc' # "Clean")
          => /\ status' = "running"
             /\ \A k \in Tables : committed'[k] = EmptyStore[k]
             /\ IdsRestart(variant, committed')

\* C13: Clean leaves every table empty, the tables are emptied in an order
\* that respects the references (association rows and Sequences before
\* Entries, Entries before Sources, Authors, ExperimentalTypes and
\* CompoundTypes, ExperimentalTypes before ExperimentalClasses), and
\* afterwards the ids of each kind restart at 1.
C13_CleanInReferenceOrder ==
    [][ /\ CleanEmpties
        /\ (pc = "Clean" /\ pc' = "Clean") => Respects(Cleaned(variant, at')) ]_vars

\* an entry-index line without a tab, or not of eight tab-separated fields
MalformedEntryLine(raw) ==
    LET ln == RStrip(raw)
    IN  ~Contains(ln, Tab) \/ Len(Split(ln, Tab)) # 8

\* C14: an entry-index line that has no tab, or a number of fields other
\* than 8, is skipped: the step that reads it writes nothing, raises nothing,
\* and the Entries phase goes on.
C14_MalformedEntryLineSkipped ==
    [][ (pc = "LoadEntries" /\ Len(file') > Len(file) /\ MalformedEntryLine(Last(file')))
            => /\ db' = db
               /\ committed' = committed
               /\ status' = "running"
               /\ pc' = "LoadEntries" ]_vars

\* a classification line that is empty or has fewer than three tokens
ShortTypeLine(raw) ==
    LET ln == RStrip(raw)
    IN  ln = << >> \/ Len(SplitWs(ln)) < 3

\* C15: in ClassifyEntries an empty line or a line of fewer than 3 tokens
\* is skipped without a write and without raising; for every other line the
\* Entry that is classified is the one of the upper-cased code.
C15_ShortTypeLineSkipped ==
    [][ (pc = "ClassifyEntries" /\ Len(file') > Len(file))
            => IF ShortTypeLine(Last(file'))
               THEN /\ db' = db
                    /\ committed' = committed
                    /\ status' = "running"
                    /\ pc' = "ClassifyEntries"
               ELSE \A c \in DOMAIN db.entries :
                        db'.entries[c] # db.entries[c]
                            => c = Upper(SplitWs(RStrip(Last(file')))[1]) ]_vars

\* the keys of the given kind the sink rejects
RefusedKeys(d, kind) == {k \in {r[2] : r \in d.refuses} : Refused(d, kind, k)}

\* the Source records of the lines of source.idx: loadDB.py makes a Source
\* of each name of a source list, loadDB_mdb_plain.py one of the whole list
SourceRecordsIn(v, lines) ==
    UNION {IF HasLinkPhases(v)
           THEN {SourceNamesOf(lines[i])[j] : j \in 1..Len(SourceNamesOf(lines[i]))}
           ELSE {SplitWsOnce(RStrip(lines[i]))[2]}
              : i \in 1..Len(lines)}

\* C16: when the sink rejects the write of single records, only those are
\* skipped: no step of the Authors, Sources or Entries phase raises out of
\* the phase, what was written before a step is still there after it, and
\* when the phase ends every record of its file that the sink does not reject
\* is stored.
C16_RefusedRecordSkipped ==
    [][ (status = "running" /\ db.refuses # {}
         /\ pc \in {"LoadAuthors", "LoadSources", "LoadEntries"})
            => /\ status' # "crash"
               /\ status' = "running"
                     => /\ Names(db.authors) \subseteq Names(db'.authors)
                        /\ Names(db.sources) \subseteq Names(db'.sources)
                        /\ DOMAIN db.entries \subseteq DOMAIN db'.entries
               /\ (pc = "LoadAuthors" /\ pc' # pc)
                     => WellFormedAuthors(inputs.files[pc]) \ RefusedKeys(db, "authors")
                            \subseteq Names(db'.authors)
               /\ (pc = "LoadSources" /\ pc' # pc)
                     => SourceRecordsIn(variant, inputs.files[pc]) \ RefusedKeys(db, "sources")
                            \subseteq Names(db'.sources)
               /\ (pc = "LoadEntries" /\ pc' # pc)
                     => {EntryKey(variant, EntryCodeOf(inputs.files[pc][i]))
                            : i \in 1..Len(inputs.files[pc])} \ RefusedKeys(db, "entries")
                            \subseteq DOMAIN db'.entries ]_vars

\* the ids of the rows of a table are 1, 2, 3, ... in the order of creation
Numbered(table) == \A i \in 1..Len(table) : table[i].id = i

\* C17: in the loader that numbers its entities (loadDB.py) the ids of
\* each kind are 1, 2, 3, ... in the order in which the keys first occurred,
\* and no step changes the id of a key that stays stored, also when the write
\* of another key fails.
C17_IdsInOrderOfFirstOccurrence ==
    [][ HasLinkPhases(variant) =>
          \A k \in Kinds :
              /\ Numbered(db[k]) /\ Numbered(db'[k])
              /\ Distinct([i \in 1..Len(db'[k]) |-> db'[k][i].name])
              /\ \A n \in Names(db[k]) \cap Names(db'[k]) : IdOf(db'[k], n) = IdOf(db[k], n)
      ]_vars

\* the place of phase p in order, 0 when it is not in it
Pos(order, p) ==
    IF \E i \in 1..Len(order) : order[i] = p
    THEN CHOOSE i \in 1..Len(order) : order[i] = p
    ELSE 0

\* C18: once the Sequences phase of a run is over, no two stored Sequence
\* records have the same entry code and chain identifier, whatever the input
\* stream, also when it repeats a header.
C18_OneSequencePerChain ==
    Pos(ScriptOrder(variant), pc) > Pos(ScriptOrder(variant), "LoadSequences")
        => \A i, j \in 1..Len(committed.sequences) :
               (/\ committed.sequences[i].idCode = committed.sequences[j].idCode
                /\ committed.sequences[i].chain = committed.sequences[j].chain) => i = j

\* C19: every Entry the LoadEntries phase has stored has an upper-case
\* code: a code read in lower or mixed case is stored upper-cased, the form in
\* which ClassifyEntries and the Sequences phase look it up.
C19_EntryCodesUpperCase ==
    \A c \in DOMAIN db.entries \cup DOMAIN committed.entries : c = Upper(c)

\* C20: a line of entries.idx whose code is already stored leaves one Entry
\* of that code and does not stop the run, and no step of ClassifyEntries,
\* LoadSequences, LinkSources or LinkAuthors creates or deletes an Entry.
C20_EntriesCreatedOnce ==
    [][ /\ (/\ pc = "LoadEntries" /\ Len(file') > Len(file)
            /\ ~MalformedEntryLine(Last(file'))
            /\ HasEntry(db, EntryKey(variant, EntryCodeOf(Last(file')))))
              => /\ status' = "running"
                 /\ DOMAIN db'.entries = DOMAIN db.entries
        /\ pc \in {"ClassifyEntries", "LoadSequences", "LinkSources", "LinkAuthors"}
              => /\ DOMAIN db'.entries = DOMAIN db.entries
                 /\ DOMAIN committed'.entries = DOMAIN committed.entries ]_vars

\* the line of entries.idx with its resolution field cut at the first comma
CutAtComma(raw) ==
    LET fields == Split(RStrip(raw), Tab)
    IN  Concat([i \in 1..Len(fields) |->
                    (IF i = 7 THEN ResolutionOf(raw) ELSE fields[i])
                        \o (IF i < Len(fields) THEN Tab ELSE NL)])

\* the line has eight fields and a comma in its resolution field
CommaInResolution(raw) ==
    /\ Len(Split(RStrip(raw), Tab)) = 8
    /\ Contains(Split(RStrip(raw), Tab)[7], <<",">>)

\* C21: when the resolution field of an entry-index line has a comma, the
\* Entry the line stores is the one the same line would store with the field
\* cut at its first comma: only the text before the comma decides the value.
C21_ResolutionBeforeFirstComma ==
    [][ (pc = "LoadEntries" /\ Len(file') > Len(file) /\ status' = "running")
            => \A raw \in {Last(file')} :
                   CommaInResolution(raw)
                       => \A cut \in {CutAtComma(raw)} :
                              /\ db' = EntryLine(variant, mem, db, cut).db
                              /\ \A c \in Written(db, db') :
                                     ParseFloat(ResolutionOf(raw)) # ValueError
                                         => db'.entries[c].resolution
                                                = ParseFloat(ResolutionOf(raw)) ]_vars

\* a line with the resolution field "2.10,1.80" has been read and its Entry
\* is stored with the resolution 2.1
C21_Witness ==
    /\ pc = "LoadEntries"
    /\ file # << >>
    /\ CommaInResolution(Last(file))
    /\ Split(RStrip(Last(file)), Tab)[7] = <<"2", ".", "1", "0", ",", "1", ".", "8", "0">>
    /\ HasEntry(db, K1)
    /\ db.entries[K1].resolution = [sign |-> 1, digits |-> <<2, 1>>, exp |-> 0 - 1]
    /\ status = "running"

\* the names the Authors phase has interned so far
Interned(v, m) ==
    IF HasLinkPhases(v) THEN {m.AUTHORS[i][1] : i \in 1..Len(m.AUTHORS)}
    ELSE {m.IDCODES_WITH_AUTHORS[i][1] : i \in 1..Len(m.IDCODES_WITH_AUTHORS)}

\* the <<name, code>> pairs the Authors phase has recorded so far
Recorded(v, m) ==
    IF HasLinkPhases(v) THEN Rows(m.author_entries)
    ELSE UNION {{<<m.IDCODES_WITH_AUTHORS[i][1], m.IDCODES_WITH_AUTHORS[i][2][j]>>
                    : j \in 1..Len(m.IDCODES_WITH_AUTHORS[i][2])}
                   : i \in 1..Len(m.IDCODES_WITH_AUTHORS)}

\* C22: a line of author.idx is split at its first " ; " only: the code is
\* the text before it and the name all the text after it, later " ; "
\* included.  A line without the separator, or with an empty code or name,
\* makes no Author and no association and raises nothing.
C22_AuthorLineSplitOnce ==
    [][ (pc = "LoadAuthors" /\ Len(file') > Len(file))
            => \A ln \in {RStrip(Last(file'))} :
                 \A p \in {Find(ln, SepAuthor)} :
                   /\ status' = "running"
                   /\ IF p <= 1 \/ p + Len(SepAuthor) > Len(ln)
                      THEN /\ db' = db
                           /\ Interned(variant, mem') = Interned(variant, mem)
                           /\ Recorded(variant, mem') = Recorded(variant, mem)
                      ELSE /\ Interned(variant, mem')
                                = Interned(variant, mem)
                                    \cup {Slice(ln, p + Len(SepAuthor), Len(ln))}
                           /\ Recorded(variant, mem')
                                = Recorded(variant, mem)
                                    \cup {<<Slice(ln, p + Len(SepAuthor), Len(ln)),
                                            Slice(ln, 1, p - 1)>>} ]_vars

\* the line "1ABC ; X ; Y" has been read and the author "X ; Y" is stored
\* by loadDB.py, and a line with an empty code has been read before it
C22_Witness ==
    /\ variant = "sql"
    /\ pc = "LoadAuthors"
    /\ Len(file) = 2
    /\ file[1] = SepAuthor \o <<"X">> \o NL
    /\ file[2] = K1 \o SepAuthor \o <<"X">> \o SepAuthor \o <<"Y">> \o NL
    /\ Names(db.authors) = {<<"X", " ", ";", " ", "Y">>}
    /\ mem.author_entries = <<<<(<<"X", " ", ";", " ", "Y">>), K1>>>>

\* a line of source.idx that does not give a four-character code and a
\* non-empty source list when split at its first whitespace
NoSourceRecord(ln) ==
    \/ Len(SplitWsOnce(ln)) # 2
    \/ Len(SplitWsOnce(ln)[1]) # 4
    \/ SplitWsOnce(ln)[2] = << >>

\* C23: a line of source.idx that has no split into two fields at its first
\* whitespace, a code whose length is not 4 or an empty source list is
\* skipped: no Source, no association, no exception; this includes lines
\* that start with whitespace and lines of a single token.
C23_SourceLineSkipped ==
    [][ (pc = "LoadSources" /\ Len(file') > Len(file))
            => \A ln \in {RStrip(Last(file'))} :
                   NoSourceRecord(ln)
                       => /\ status' = "running"
                          /\ db' = db
                          /\ mem' = mem ]_vars

\* the names of the rows of a table that have the given id
NamesOfId(table, id) == {table[i].name : i \in {j \in 1..Len(table) : table[j].id = id}}

\* the classes the ExperimentalType of Entry c refers to: in loadDB.py
\* through the type the Entry refers to, in loadDB_mdb_plain.py the class
\* kept with the type in the Entry itself
ClassesOfEntry(v, d, c) ==
    IF HasLinkPhases(v)
    THEN UNION {NamesOfId(d.expClasses, d.expTypes[i].ref)
                   : i \in {j \in 1..Len(d.expTypes) : d.expTypes[j].id = d.entries[c].expType}}
    ELSE {d.entries[c].expClasse} \ {<< >>}

\* the classes named for code c on the lines of pdb_entry_type.txt
ClassesNamed(lines, c) ==
    {SplitWs(RStrip(lines[i]))[3]
        : i \in {j \in 1..Len(lines) : /\ Len(SplitWs(RStrip(lines[j]))) >= 3
                                        /\ Upper(SplitWs(RStrip(lines[j]))[1]) = c}}

\* C24: when a run is over, every ExperimentalType refers to at most one
\* ExperimentalClass, and for every stored Entry that has a classification
\* line the class its ExperimentalType refers to is the class named on that
\* line, also when two entries share an ExperimentalType.
C24_ClassOfOwnLine ==
    status = "exit0" =>
        /\ \A i \in 1..Len(committed.expTypes) :
               Cardinality(NamesOfId(committed.expClasses, committed.expTypes[i].ref)) <= 1
        /\ \A c \in DOMAIN committed.entries :
               ClassesNamed(inputs.files["ClassifyEntries"], c) # {}
                   => ClassesOfEntry(variant, committed, c)
                          = ClassesNamed(inputs.files["ClassifyEntries"], c)

\* the compound field of a line of entries.idx
CompoundFieldOf(raw) == Split(RStrip(raw), Tab)[4]

\* C25: the compound of every stored Entry is the first 255 characters of
\* the compound field of its line of entries.idx, the whole field when it is
\* shorter; no stored compound is longer than 255 characters.
C25_CompoundFirst255 ==
    /\ \A c \in DOMAIN db.entries : Len(db.entries[c].compound) <= 255
    /\ \A i \in 1..Len(file) :
          pc = "LoadEntries" /\ HasEntry(db, EntryKey(variant, EntryCodeOf(file[i])))
              => \A field \in {CompoundFieldOf(file[i])} :
                   \A stored \in {db.entries[EntryKey(variant, EntryCodeOf(file[i]))].compound} :
                     /\ Len(stored) = IF Len(field) < 255 THEN Len(field) ELSE 255
                     /\ \A k \in 1..Len(stored) : stored[k] = field[k]

\* an Entry whose line has a compound field of 256 characters is stored
\* with a compound of 255
C25_Witness ==
    /\ pc = "LoadEntries"
    /\ Len(file) = 1
    /\ Len(CompoundFieldOf(file[1])) = 256
    /\ HasEntry(db, K1)
    /\ Len(db.entries[K1].compound) = 255

\* C26: in the Sequences phase a line that starts with ">" and does not
\* match the header pattern leaves the current code and chain as the last
\* matching header set them and replaces the header text by the line; a
\* record that is emitted carries the current code, chain and header text,
\* so the body after such a line is emitted under the previous code and chain.
C26_UnmatchedHeaderKeepsCodeAndChain ==
    [][ pc = "LoadSequences" =>
          /\ (Len(file') > Len(file) /\ IsHeader(Last(file'))
              /\ HeaderMatch(RStrip(Last(file'))) = NoMatch)
                => /\ mem'.idPdb = mem.idPdb
                   /\ mem'.chain = mem.chain
                   /\ mem'.header = Remove(RStrip(Last(file')), ">")
          /\ Len(db'.sequences) > Len(db.sequences)
                => /\ Len(db'.sequences) = Len(db.sequences) + 1
                   /\ Last(db'.sequences).idCode = Upper(mem.idPdb)
                   /\ Last(db'.sequences).chain = Remove(mem.chain, " ")
                   /\ Last(db'.sequences).header = mem.header ]_vars

\* the header of chain A of 1abc, a line ">junk" and the body "LT" have
\* been read, and the record of "LT" is stored under 1ABC, chain A, with the
\* header text "junk"
C26_Witness ==
    /\ pc # "LoadSequences"
    /\ Len(committed.sequences) = 1
    /\ committed.sequences[1].idCode = K1
    /\ committed.sequences[1].chain = <<"A">>
    /\ committed.sequences[1].header = <<"j", "u", "n", "k">>
    /\ committed.sequences[1].sequence = <<"L", "T">>

\* every header of the stream has the form of the pattern
HeadersMatch(lines) == \A i \in Headers(lines) : HeaderMatch(RStrip(lines[i])) # NoMatch

\* C27: when the Sequences phase of a stream whose headers all match ends,
\* the records emitted under a header are those of the headers that have a
\* body (and, in loadDB_mdb_plain.py, a stored Entry), each with exactly the
\* lines between its header and the next one, in their order: no line is
\* lost, repeated or carried over into the record of a later header, also
\* when lines come before the first header.
C27_BodyOfNearestHeader ==
    [][ (pc = "LoadSequences" /\ pc' # pc /\ HeadersMatch(file))
        => SelectSeq(db'.sequences, LAMBDA r : r.header # << >>)
               = RecordsOf(file, WithBody(file) \cap Owned(variant, db, file)) ]_vars

\* the dedup maps of loadDB.py, each with the table of its kind: the dicts
\* that map a natural key to the entity created for it; loadDB_mdb_plain.py
\* keeps none
DedupMaps(v) ==
    IF v = "sql"
    THEN {<<"AUTHORS", "authors">>, <<"SOURCES", "sources">>, <<"ExpTypes", "expTypes">>,
          <<"expClasses", "expClasses">>, <<"compTypes", "compTypes">>}
    ELSE {}

Keys(dict) == {dict[i][1] : i \in 1..Len(dict)}

\* C28: at every point of a run on a store that was empty, also when an
\* exception has just ended it, each dedup map and the session agree: a key
\* is in the map if and only if exactly one entity with that key is written
\* for that kind, the map entry is that entity, and a key whose write failed
\* is not in the map.
C28_DedupMapAgreesWithSink ==
    (status \in {"running", "exit0", "crash"} /\ earlier = << >>) =>
        \A p \in DedupMaps(variant) :
            /\ Keys(mem[p[1]]) = Names(db[p[2]])
            /\ \A key \in Keys(mem[p[1]]) :
                  /\ Count(db[p[2]], key) = 1
                  /\ Get(mem[p[1]], key) = IdOf(db[p[2]], key)
                  /\ ~Refused(db, p[2], key)

\* loadDB.py has stored two authors and reads the source line "1ABC A; B";
\* the write of B failed: A alone is in the map and in the session, and the
\* run has ended
C28_Witness ==
    /\ variant = "sql"
    /\ earlier = << >>
    /\ pc = "LoadSources"
    /\ status = "crash"
    /\ Len(file) = 1
    /\ Refused(db, "sources", <<"B">>)
    /\ Cardinality(Keys(mem.AUTHORS)) = 2
    /\ Keys(mem.SOURCES) = {<<"A">>}
    /\ Names(db.sources) = {<<"A">>}

\* the experimental type names of the lines of entries.idx for code c
TypeNamesOf(lines, c) ==
    {Split(RStrip(lines[i]), Tab)[8]
        : i \in {j \in 1..Len(lines) : /\ Len(Split(RStrip(lines[j]), Tab)) = 8
                                        /\ EntryCodeOf(lines[j]) = c}}

\* C29: in the relational loader, when LoadEntries commits, every stored
\* ExperimentalType is referenced by at least one stored Entry, and every
\* stored Entry references exactly one ExperimentalType, the one of the type
\* name on its line of entries.idx.
C29_TypesAndEntriesReferToEachOther ==
    [][ (variant = "sql" /\ pc = "LoadEntries" /\ pc' # pc)
        => /\ committed' = db'
           /\ \A i \in 1..Len(db'.expTypes) :
                 \E c \in DOMAIN db'.entries : db'.entries[c].expType = db'.expTypes[i].id
           /\ \A c \in DOMAIN db'.entries :
                 /\ Cardinality({i \in 1..Len(db'.expTypes) :
                                    db'.expTypes[i].id = db'.entries[c].expType}) = 1
                 /\ NamesOfId(db'.expTypes, db'.entries[c].expType) = TypeNamesOf(file, c) ]_vars

\* loadDB.py has committed two entries of two experimental types
C29_Witness ==
    /\ variant = "sql"
    /\ pc = "ClassifyEntries"
    /\ nread = 2
    /\ DOMAIN committed.entries = {K1, K1low}
    /\ Names(committed.expTypes) = {<<"X">>, <<"N">>}
    /\ committed.entries[K1].expType = IdOf(committed.expTypes, <<"X">>)
    /\ committed.entries[K1low].expType = IdOf(committed.expTypes, <<"N">>)

=============================================================================
